---- MODULE Spec2Model ----
(***************************************************************************)
(* Elasticsearch output plugin (plugins/out_es): the bulk formatter        *)
(* elasticsearch_format, the response validator elasticsearch_error_check  *)
(* and the flush callback cb_es_flush.                                     *)
(*                                                                         *)
(* Strings are sequences of one-character strings.  A msgpack object is a  *)
(* record [type, via]; the output of a msgpack packer is the sequence of   *)
(* the tokens it was asked to write.                                       *)
(***************************************************************************)
EXTENDS Naturals, Integers, Sequences, FiniteSets, TLC

VARIABLES
    ctx,            \* struct flb_elasticsearch: the plugin configuration
    tag,            \* the tag of the chunk being flushed
    objects,        \* the msgpack objects an input buffer may hold
    clock,          \* what flb_time_get reads during the call (lines 291, 376)
    data,           \* the msgpack objects of the input buffer read so far
    pc,             \* position of elasticsearch_format
    off,            \* number of objects the record loop has consumed
    tms,            \* struct flb_time tms
    logstash_index, \* char logstash_index[256], the initialised part
    index_formatted,\* char index_formatted[256]
    j_index,        \* char j_index[ES_BULK_HEADER]: the action line
    index_len,      \* int index_len
    bulk,           \* struct es_bulk *bulk and its storage
    ret,            \* return value of elasticsearch_format
    out_data,       \* *out_data and *out_size as the caller sees them
    alloc_failed,   \* whether an allocation of this call has failed
    lookup_failed,  \* records for which flb_ra_translate returned NULL
    history,        \* (document, id) pairs of earlier format calls
    fpc,            \* position of cb_es_flush
    flush,          \* locals of cb_es_flush: u_conn, pack, c, signature
    verdict,        \* value handed to FLB_OUTPUT_RETURN
    resp,           \* c->resp: status, payload, and how flb_pack_json reads it
    check,          \* result of elasticsearch_error_check
    sancall,        \* es_pack_map_content called on a map: arguments, results
    idcall,         \* the id template expanded on a map: arguments, results
    conf,           \* flb_es_conf_create: options, the context, the heap
    hdrcall         \* one action line composed by snprintf and appended

vars == <<ctx, tag, objects, clock, sancall, idcall, conf, hdrcall, data,
          pc, off, tms, logstash_index,
          index_formatted, j_index, index_len, bulk, ret, out_data,
          alloc_failed, lookup_failed, history, fpc, flush, verdict, resp, check>>

envvars == <<ctx, tag, objects, clock>>
flushvars == <<fpc, flush, verdict, resp, check>>

fmtvars == <<pc, off, tms, logstash_index, index_formatted, j_index,
             index_len, bulk, ret, out_data, alloc_failed,
             lookup_failed>>

-----------------------------------------------------------------------------
(* Bounds of the model.                                                    *)

\* Largest number of objects in one input buffer.
MaxRecords == 2

-----------------------------------------------------------------------------
(* C strings.                                                              *)

NUL == "\\0"

FLB_TRUE == TRUE
FLB_FALSE == FALSE

\* A possibly-NULL string (flb_sds_t, const char * ).
NULL == [null |-> TRUE, buf |-> <<>>]
Sds(s) == [null |-> FALSE, buf |-> s]

Min(a, b) == IF a < b THEN a ELSE b
Max(a, b) == IF a < b THEN b ELSE a

Take(s, n) == SubSeq(s, 1, Min(n, Len(s)))
Drop(s, n) == SubSeq(s, n + 1, Len(s))

RECURSIVE Concat(_)
Concat(ss) == IF ss = <<>> THEN <<>> ELSE Head(ss) \o Concat(Tail(ss))

\* The C string stored at the start of a buffer: the bytes before the
\* first NUL.
RECURSIVE CStr(_)
CStr(buf) ==
    IF buf = <<>> \/ Head(buf) = NUL THEN <<>>
    ELSE <<Head(buf)>> \o CStr(Tail(buf))

\* memcpy(buf + at, src, Len(src)): the initialised part of buf afterwards.
Memcpy(buf, at, src) ==
    [i \in 1..Max(Len(buf), at + Len(src)) |->
        IF i > at /\ i <= at + Len(src) THEN src[i - at]
        ELSE IF i <= Len(buf) THEN buf[i]
        ELSE "?"]

\* strstr(hay, needle): 0 when absent, else the 1-based position of the
\* first occurrence.
IsPrefix(p, s) == Len(p) <= Len(s) /\ SubSeq(s, 1, Len(p)) = p

RECURSIVE StrstrFrom(_, _, _)
StrstrFrom(hay, needle, i) ==
    IF i + Len(needle) - 1 > Len(hay) THEN 0
    ELSE IF SubSeq(hay, i, i + Len(needle) - 1) = needle THEN i
    ELSE StrstrFrom(hay, needle, i + 1)

Strstr(hay, needle) == StrstrFrom(hay, needle, 1)

ToLower(c) ==
    CASE c = "I" -> "i"
      [] c = "D" -> "d"
      [] c = "A" -> "a"
      [] OTHER -> c

\* strncasecmp(s1, s2, n) == 0, with s1 a counted string of exactly n
\* bytes and s2 NUL-terminated.
StrncasecmpEq(s1, s2, n) ==
    /\ Len(s2) >= n
    /\ \A i \in 1..n : ToLower(s1[i]) = ToLower(s2[i])

DigitChars == <<"0", "1", "2", "3", "4", "5", "6", "7", "8", "9",
                "a", "b", "c", "d", "e", "f">>

\* printf("%0<w>u") and printf("%0<w>x").
RECURSIVE Radix(_, _, _)
Radix(n, w, base) ==
    IF w <= 1 /\ n < base THEN <<DigitChars[n + 1]>>
    ELSE Radix(n \div base, w - 1, base) \o <<DigitChars[(n % base) + 1]>>

Dec(n, w) == Radix(n, w, 10)
Hex(n, w) == Radix(n, w, 16)

-----------------------------------------------------------------------------
(* Time.                                                                   *)

\* gmtime_r, for the days of January 1970.
gmtime_r(tv_sec) ==
    [tm_year |-> 1970, tm_mon |-> 1, tm_mday |-> (tv_sec \div 86400) + 1]

\* strftime: the conversions %Y, %m and %d; every other byte is copied.
RECURSIVE StrftimeText(_, _)
StrftimeText(fmt, tm) ==
    IF fmt = <<>> THEN <<>>
    ELSE IF Head(fmt) = "%" /\ Len(fmt) >= 2 THEN
        (CASE fmt[2] = "Y" -> Dec(tm.tm_year, 4)
           [] fmt[2] = "m" -> Dec(tm.tm_mon, 2)
           [] fmt[2] = "d" -> Dec(tm.tm_mday, 2)
           [] OTHER -> <<fmt[2]>>) \o StrftimeText(Drop(fmt, 2), tm)
    ELSE <<Head(fmt)>> \o StrftimeText(Tail(fmt), tm)

\* strftime(s, max, fmt, tm): the bytes stored (without the NUL); nothing
\* is stored and 0 is returned when the result and its NUL exceed max.
strftime(max, fmt, tm) ==
    LET text == StrftimeText(fmt, tm)
    IN IF Len(text) + 1 > max THEN <<>> ELSE text

-----------------------------------------------------------------------------
(* msgpack objects and the msgpack packer.                                 *)

Str(s) == [type |-> "STR", via |-> s]
Bin(s) == [type |-> "BIN", via |-> s]
UInt(n) == [type |-> "POSITIVE_INTEGER", via |-> n]
Bool(b) == [type |-> "BOOLEAN", via |-> b]
Nil == [type |-> "NIL", via |-> 0]
Arr(els) == [type |-> "ARRAY", via |-> els]
Map(kvs) == [type |-> "MAP", via |-> kvs]
KV(k, v) == [key |-> k, val |-> v]

\* What a packer call writes: one token.
Tok(t, n, s) == [tok |-> t, n |-> n, s |-> s]
msgpack_pack_map(n) == <<Tok("map", n, <<>>)>>
msgpack_pack_array(n) == <<Tok("array", n, <<>>)>>
\* msgpack_pack_str(len) followed by msgpack_pack_str_body(ptr, len).
msgpack_pack_str(s) == <<Tok("str", Len(s), s)>>

\* msgpack_pack_object: the object is written as it is.
RECURSIVE msgpack_pack_object(_)
RECURSIVE PackEach(_, _)
PackEach(els, isMap) ==
    IF els = <<>> THEN <<>>
    ELSE (IF isMap
          THEN msgpack_pack_object(Head(els).key)
                   \o msgpack_pack_object(Head(els).val)
          ELSE msgpack_pack_object(Head(els)))
         \o PackEach(Tail(els), isMap)

msgpack_pack_object(o) ==
    CASE o.type = "STR" -> <<Tok("str", Len(o.via), o.via)>>
      [] o.type = "BIN" -> <<Tok("bin", Len(o.via), o.via)>>
      [] o.type = "POSITIVE_INTEGER" -> <<Tok("uint", o.via, <<>>)>>
      [] o.type = "BOOLEAN" -> <<Tok("bool", IF o.via THEN 1 ELSE 0, <<>>)>>
      [] o.type = "NIL" -> <<Tok("nil", 0, <<>>)>>
      [] o.type = "ARRAY" ->
            msgpack_pack_array(Len(o.via)) \o PackEach(o.via, FALSE)
      [] o.type = "MAP" ->
            msgpack_pack_map(Len(o.via)) \o PackEach(o.via, TRUE)

-----------------------------------------------------------------------------
(* es_pack_map_content and es_pack_array_content: the key sanitizer.       *)

\* sizeof(buf_key) in es_pack_map_content.
BufKeySize == 256

\* A loop that stops after the first '.' it replaces.
ReplaceDotsFirst(key) ==
    [i \in 1..Len(key) |->
        IF key[i] = "." /\ (\A j \in 1..(i - 1) : key[j] # ".")
        THEN "_" ELSE key[i]]

\* A loop that stops one byte before the end of the key.
ReplaceDotsButLast(key) ==
    [i \in 1..Len(key) |->
        IF key[i] = "." /\ i < Len(key) THEN "_" ELSE key[i]]

\* The loop that replaces every '.' of the key by '_'.
ReplaceDots(key) ==
    [i \in 1..Len(key) |-> IF key[i] = "." THEN "_" ELSE key[i]]

\* The bytes the key is read from: a BIN or STR key, else no bytes at all
\* (key_ptr = NULL, key_size = 0).
KeyBytes(k) ==
    IF k.type = "BIN" \/ k.type = "STR" THEN k.via ELSE <<>>

\* Both functions return [ret, out]: the return value and the tokens
\* written to tmp_pck.  nomem tells whether flb_malloc fails.
RECURSIVE es_pack_map_content(_, _, _)
RECURSIVE es_pack_array_content(_, _, _)

\* A value whose arrays are opened with a map header.
PackValueArrayAsMap(v, c, nomem) ==
    CASE v.type = "MAP" ->
            msgpack_pack_map(Len(v.via))
                \o es_pack_map_content(v.via, c, nomem).out
      [] v.type = "ARRAY" ->
            msgpack_pack_map(Len(v.via))
                \o es_pack_array_content(v.via, c, nomem).out
      [] OTHER -> msgpack_pack_object(v)

\* One value of a map or one element of an array: the return value of the
\* nested call is dropped.
PackValue(v, c, nomem) ==
    CASE v.type = "MAP" ->
            msgpack_pack_map(Len(v.via))
                \o es_pack_map_content(v.via, c, nomem).out
      [] v.type = "ARRAY" ->
            msgpack_pack_array(Len(v.via))
                \o es_pack_array_content(v.via, c, nomem).out
      [] OTHER -> msgpack_pack_object(v)

es_pack_map_content(kvs, c, nomem) ==
    IF kvs = <<>> THEN [ret |-> 0, out |-> <<>>]
    ELSE
        LET k == Head(kvs).key
            v == Head(kvs).val
            key == KeyBytes(k)
            spill == ~(Len(key) < BufKeySize - 1)
        IN IF spill /\ nomem THEN [ret |-> -1, out |-> <<>>]
           ELSE
             LET ptr_key == IF c.replace_dots = FLB_TRUE
                            THEN ReplaceDots(key) ELSE key
                 rest == es_pack_map_content(Tail(kvs), c, nomem)
             IN [ret |-> rest.ret,
                 out |-> msgpack_pack_str(ptr_key)
                             \o PackValue(v, c, nomem) \o rest.out]

es_pack_array_content(els, c, nomem) ==
    IF els = <<>> THEN [ret |-> 0, out |-> <<>>]
    ELSE
        LET rest == es_pack_array_content(Tail(els), c, nomem)
        IN [ret |-> 0,
            out |-> PackValue(Head(els), c, nomem) \o rest.out]

-----------------------------------------------------------------------------
(* The bulk action line and the bulk buffer (es_bulk.h, es_bulk.c).        *)

\* The four action-line formats.  A header is kept as the format chosen
\* and the arguments handed to snprintf; HeaderText is its text.
HdrOpen == <<"{", "\"", "i", "n", "d", "e", "x", "\"", ":", "{",
             "\"", "_", "i", "n", "d", "e", "x", "\"", ":", "\"">>
HdrType == <<"\"", ",", "\"", "_", "t", "y", "p", "e", "\"", ":", "\"">>
HdrId == <<"\"", ",", "\"", "_", "i", "d", "\"", ":", "\"">>
HdrClose == <<"\"", "}", "}", "\n">>

HasType(h) == h.fmt \in {"ES_BULK_INDEX_FMT", "ES_BULK_INDEX_FMT_ID"}
HasId(h) ==
    h.fmt \in {"ES_BULK_INDEX_FMT_ID", "ES_BULK_INDEX_FMT_ID_WITHOUT_TYPE"}

HeaderText(h) ==
    HdrOpen \o h.index
        \o (IF HasType(h) THEN HdrType \o h.type ELSE <<>>)
        \o (IF HasId(h) THEN HdrId \o h.id ELSE <<>>)
        \o HdrClose

\* j_index before anything was written to it.
NoHeader == [fmt |-> "uninitialized", index |-> <<>>, type |-> <<>>,
             id |-> <<>>]

\* snprintf(j_index, size, fmt, ...): what j_index holds afterwards.
snprintf_header(fmt, es_index, type, id) ==
    [fmt |-> fmt, index |-> es_index,
     type |-> IF fmt \in {"ES_BULK_INDEX_FMT", "ES_BULK_INDEX_FMT_ID"}
              THEN type ELSE <<>>,
     id |-> IF fmt \in {"ES_BULK_INDEX_FMT_ID",
                        "ES_BULK_INDEX_FMT_ID_WITHOUT_TYPE"}
            THEN id ELSE <<>>]

\* The header without an id: the choice between the two formats made at
\* lines 297-308 and again at lines 467-478.
HeaderNoId(c, es_index) ==
    IF c.suppress_type_name
    THEN snprintf_header("ES_BULK_INDEX_FMT_WITHOUT_TYPE", es_index,
                         <<>>, <<>>)
    ELSE snprintf_header("ES_BULK_INDEX_FMT", es_index, c.type, <<>>)

\* The header with an id: lines 352-364 and lines 517-528.
HeaderWithId(c, es_index, id) ==
    IF c.suppress_type_name
    THEN snprintf_header("ES_BULK_INDEX_FMT_ID_WITHOUT_TYPE", es_index,
                         <<>>, id)
    ELSE snprintf_header("ES_BULK_INDEX_FMT_ID", es_index, c.type, id)

\* One line of the bulk buffer.  rec is the position in the input of the
\* object the line was made from; it is not part of the bytes.
ActionLine(rec, h) == [kind |-> "action", rec |-> rec, hdr |-> h,
                       json |-> <<>>]
DocLine(rec, json) == [kind |-> "doc", rec |-> rec, hdr |-> NoHeader,
                       json |-> json]

NoBulk == [ctx |-> "none", ptr |-> "none", buf |-> <<>>]

\* es_bulk_create: the context and its storage.
es_bulk_create == [ctx |-> "live", ptr |-> "live", buf |-> <<>>]

\* es_bulk_destroy: releases the storage and the context.
es_bulk_destroy(b) == [b EXCEPT !.ctx = "freed", !.ptr = "freed"]

\* es_bulk_append: the action line, then the document and a newline.
es_bulk_append(b, rec, h, json) ==
    [b EXCEPT !.buf = b.buf \o <<ActionLine(rec, h), DocLine(rec, json)>>]

-----------------------------------------------------------------------------
(* Collaborators of elasticsearch_format.                                  *)

\* flb_ra_translate(ctx->ra_prefix_key, tag, tag_len, map, NULL) for the
\* accessor "$<name>": the value of the first top-level string field
\* called name, an empty string when there is none.
RECURSIVE RaLookup(_, _)
RaLookup(name, kvs) ==
    IF kvs = <<>> THEN <<>>
    ELSE IF Head(kvs).key.type = "STR" /\ Head(kvs).key.via = name
            /\ Head(kvs).val.type = "STR"
         THEN Head(kvs).val.via
         ELSE RaLookup(name, Tail(kvs))

flb_ra_translate(ra, map, nomem) ==
    IF nomem THEN NULL ELSE Sds(RaLookup(ra, map.via))

\* flb_time_pop_from_msgpack: the time of a record, read from its first
\* element; tms is left as it was when that element holds no time.
flb_time_pop_from_msgpack(t, root) ==
    LET o == root.via[1]
    IN CASE o.type = "POSITIVE_INTEGER" -> [tv_sec |-> o.via, tv_nsec |-> 0]
         [] o.type = "EXT" -> o.via
         [] OTHER -> t

\* msgpack_unpack_next on a packer's output: the number of tokens of the
\* first complete object, 0 when the tokens end before it is complete.
RECURSIVE UnpackObjects(_, _, _)
UnpackObjects(toks, i, count) ==
    IF count = 0 THEN i
    ELSE IF i > Len(toks) THEN 0
    ELSE
        LET t == toks[i]
            inner == CASE t.tok = "map" -> UnpackObjects(toks, i + 1, 2 * t.n)
                       [] t.tok = "array" -> UnpackObjects(toks, i + 1, t.n)
                       [] OTHER -> i + 1
        IN IF inner = 0 THEN 0 ELSE UnpackObjects(toks, inner, count - 1)

UnpackComplete(toks) == UnpackObjects(toks, 1, 1) # 0

\* flb_msgpack_raw_to_json_sds: NULL when the buffer holds no complete
\* object or when memory runs out; else the JSON text, kept here as the
\* tokens it renders.
flb_msgpack_raw_to_json_sds(toks, nomem) ==
    IF nomem \/ ~UnpackComplete(toks) THEN NULL ELSE Sds(toks)

\* The characters of the model, for the byte values the hash reads.
Alphabet == <<"a", "b", "d", "g", "i", "l", "p", "t", "x", "A", "D", "I",
              ".", "_", "-", "%", "$", "[", "]", "@", "Z", "k",
              "0", "1", "2", "3", "4", "5", "6", "7", "8", "9">>

Code(ch) ==
    IF \E i \in 1..Len(Alphabet) : Alphabet[i] = ch
    THEN CHOOSE i \in 1..Len(Alphabet) : Alphabet[i] = ch
    ELSE 0

TokCode(t) ==
    CASE t = "map" -> 128 [] t = "array" -> 144 [] t = "str" -> 160
      [] t = "bin" -> 196 [] t = "uint" -> 204 [] t = "bool" -> 194
      [] OTHER -> 192

RECURSIVE SbufBytes(_)
SbufBytes(toks) ==
    IF toks = <<>> THEN <<>>
    ELSE <<TokCode(Head(toks).tok), Head(toks).n>>
             \o [i \in 1..Len(Head(toks).s) |-> Code(Head(toks).s[i])]
             \o SbufBytes(Tail(toks))

\* MurmurHash3_x64_128(data, size, seed, out): eight 16-bit words that
\* depend on the bytes and the seed only.  Mix folds the bytes by halves,
\* and the eight words are spread from one fold.
RECURSIVE Mix(_, _)
Mix(bytes, k) ==
    IF Len(bytes) = 0 THEN k
    ELSE IF Len(bytes) = 1 THEN (bytes[1] * (2 * k + 1) + k) % 65536
    ELSE LET m == Len(bytes) \div 2
         IN (Mix(SubSeq(bytes, 1, m), k) * (31 + 2 * k)
               + Mix(SubSeq(bytes, m + 1, Len(bytes)), k) + m) % 65536

MurmurHash3_x64_128(toks, seed) ==
    LET h == Mix(SbufBytes(toks), seed % 7)
    IN [k \in 1..8 |-> (h * (2 * k + 1) + seed * k) % 65536]

-----------------------------------------------------------------------------
(* elasticsearch_format: the sizes of its buffers.                         *)

\* sizeof(logstash_index), sizeof(time_formatted), sizeof(index_formatted).
LogstashIndexSize == 256
TimeFormattedSize == 256
IndexFormattedSize == 256
\* Largest number of bytes copied from the value of logstash_prefix_key.
PrefixKeyMax == 128
\* Seed of the document hash.
HashSeed == 42

-----------------------------------------------------------------------------
(* elasticsearch_format: the id template (id_format), lines 309-350.       *)

\* The inner loop over the key/value pairs found at map.via.map.ptr:
\*   while (pKv++->key.type != MSGPACK_OBJECT_NIL) { ... pKv ... }
\* kv is the memory at that address, i the pair the condition tests; the
\* body then looks at pair i + 1.  Reading past the mapped memory ends
\* the process.
RECURSIVE IdFormatLookup(_, _, _)
IdFormatLookup(kv, i, key) ==
    IF i > Len(kv) THEN [segv |-> TRUE, text |-> <<>>]
    ELSE IF kv[i].key.type = "NIL" THEN [segv |-> FALSE, text |-> <<>>]
    ELSE IF i + 1 > Len(kv) THEN [segv |-> TRUE, text |-> <<>>]
    ELSE
        LET e == kv[i + 1]
            found == /\ e.key.type = "STR"
                     /\ e.val.type = "STR"
                     /\ StrncasecmpEq(e.key.via, key, Len(e.key.via))
            rest == IdFormatLookup(kv, i + 1, key)
        IN [segv |-> rest.segv,
            text |-> (IF found THEN e.val.via ELSE <<>>) \o rest.text]

\* The outer loop over the template: p is the text from the pointer p on,
\* mem the memory the uninitialised map points to.
RECURSIVE IdFormatScan(_, _)
IdFormatScan(p, mem) ==
    LET at == Strstr(p, <<"$", "[">>)
    IN IF at = 0 THEN [segv |-> FALSE, text |-> p]
       ELSE
         LET lit == Take(p, at - 1)
             from == Drop(p, at - 1)
             q == Strstr(from, <<"]">>)
         IN IF q = 0 THEN [segv |-> FALSE, text |-> lit]
            ELSE
              LET key == SubSeq(from, 3, q - 1)
                  hit == IF mem.mapped THEN IdFormatLookup(mem.kv, 1, key)
                         ELSE [segv |-> TRUE, text |-> <<>>]
                  rest == IdFormatScan(Drop(from, q), mem)
              IN IF hit.segv THEN [segv |-> TRUE, text |-> <<>>]
                 ELSE [segv |-> rest.segv,
                       text |-> lit \o hit.text \o rest.text]

-----------------------------------------------------------------------------
(* elasticsearch_format: the steps of one record.                          *)

\* A test that takes arrays of three elements for records.
SkippedUnlessThree(obj) == obj.type # "ARRAY" \/ Len(obj.via) # 3

\* A test that only skips arrays that are too short.
SkippedIfShort(obj) == obj.type # "ARRAY" \/ Len(obj.via) < 2

\* Lines 381-389: an entry that is no array of two elements is skipped.
Skipped(obj) == obj.type # "ARRAY" \/ Len(obj.via) # 2

\* Lines 399-416: the value of logstash_prefix_key is copied over the
\* start of logstash_index.  Returns the buffer and es_index_custom_len.
PrefixKeyCopy(c, buf, v) ==
    IF c.logstash_prefix_key.null \/ v.null
    THEN [buf |-> buf, len |-> 0]
    ELSE LET len == Min(Len(v.buf), PrefixKeyMax)
         IN [buf |-> Memcpy(buf, 0, Take(v.buf, len)), len |-> len]

\* Lines 453-464: '-' and the date are written behind the prefix.
ComposeLogstash(c, buf, es_index_custom_len, tm) ==
    LET at == IF es_index_custom_len > 0 THEN es_index_custom_len
              ELSE Len(c.logstash_prefix)
        len == at + 1
        date == strftime(LogstashIndexSize - len - 1, c.logstash_dateformat, tm)
    IN Memcpy(Memcpy(buf, at, <<"-">>), len, date \o <<NUL>>)

\* Lines 433-448: the value of the time key.
TimeFormatted(c, t) ==
    strftime(TimeFormattedSize - 1, c.time_key_format, gmtime_r(t.tv_sec))
        \o (IF c.time_key_nanos
            THEN <<".">> \o Dec(t.tv_nsec, 9) \o <<"Z">>
            ELSE <<".">> \o Dec(t.tv_nsec \div 1000000, 3) \o <<"Z">>)

\* A document head that leaves the tag pair out of the declared size.
DocumentHeadTagUncounted(c, tg, map_size, t) ==
    msgpack_pack_map(map_size + 1)
        \o msgpack_pack_str(c.time_key)
        \o msgpack_pack_str(TimeFormatted(c, t))
        \o (IF c.include_tag_key = FLB_TRUE
            THEN msgpack_pack_str(c.tag_key) \o msgpack_pack_str(tg)
            ELSE <<>>)

\* Lines 422-448 and 489-494: the map header, the time key and the tag
\* key of the document.
DocumentHead(c, tg, map_size, t) ==
    msgpack_pack_map((IF c.include_tag_key = FLB_TRUE
                      THEN map_size + 1 ELSE map_size) + 1)
        \o msgpack_pack_str(c.time_key)
        \o msgpack_pack_str(TimeFormatted(c, t))
        \o (IF c.include_tag_key = FLB_TRUE
            THEN msgpack_pack_str(c.tag_key) \o msgpack_pack_str(tg)
            ELSE <<>>)

\* The hash taken over the map as it came in.
HashInputUnsanitized(tmp_sbuf, map) == msgpack_pack_object(map)

\* Line 512: the bytes handed to the hash are the whole of tmp_sbuf.
HashInput(tmp_sbuf, map) == tmp_sbuf

\* Lines 512-516: the hash of the document printed as
\* "%04x%04x-%04x-%04x-%04x-%04x%04x%04x".
es_uuid(toks) ==
    LET hash == MurmurHash3_x64_128(toks, HashSeed)
    IN Hex(hash[1], 4) \o Hex(hash[2], 4) \o <<"-">> \o Hex(hash[3], 4)
         \o <<"-">> \o Hex(hash[4], 4) \o <<"-">> \o Hex(hash[5], 4)
         \o <<"-">> \o Hex(hash[6], 4) \o Hex(hash[7], 4)
         \o Hex(hash[8], 4)

\* An error exit that returns without es_bulk_destroy.
AbortRecordNoDestroy(b) == b

\* Lines 505-508, 535-537 and 545-548: the error exits of the record loop
\* release the bulk composer together with its storage.
AbortRecord(b) == es_bulk_destroy(b)

\* The locals of elasticsearch_format that live across records.
Locals(t, lbuf, idxf, j, b) ==
    [tms |-> t, logstash_index |-> lbuf, index_formatted |-> idxf,
     j_index |-> j, bulk |-> b]

\* A time that is read from the record whatever current_time_index says.
RecordTimeAlwaysPopped(c, t, root) == flb_time_pop_from_msgpack(t, root)

\* Lines 391-394: tms after the time of the record is popped, which is
\* done only when current_time_index is off.
RecordTime(c, t, root) ==
    IF c.current_time_index = FLB_FALSE
    THEN flb_time_pop_from_msgpack(t, root) ELSE t

\* Lines 396-397: the second element of the entry is read through via.map
\* whatever its type is.  The members of the union start with the same
\* 32-bit size (the low word of an integer): an empty string, an empty
\* array and the integer 0 read as a map of no entries.
ReadsAsEmptyMap(o) ==
    \/ o.type \in {"STR", "BIN", "ARRAY"} /\ o.via = <<>>
    \/ o.type = "POSITIVE_INTEGER" /\ o.via = 0

MapView(o) ==
    IF ReadsAsEmptyMap(o) THEN [type |-> o.type, via |-> <<>>] ELSE o

\* Which allocation fails while a record is formatted.
NoFault == "none"
Faults == {NoFault, "flb_ra_translate", "flb_malloc",
           "flb_msgpack_raw_to_json_sds", "es_bulk_append"}

\* Lines 380-550: one round of the record loop on the object obj, the
\* rec-th of the input.  Returns the locals and the exit taken: "continue",
\* "appended", or the call whose failure ended the loop.
FormatOne(c, tg, L, obj, rec, fault) ==
    IF Skipped(obj)
    THEN [exit |-> "continue", L |-> L]
    ELSE
      LET root == obj
          t == RecordTime(c, L.tms, root)
          map == MapView(root.via[2])
          map_size == Len(map.via)
          v == IF c.logstash_prefix_key.null THEN NULL
               ELSE flb_ra_translate(c.ra_prefix_key, map,
                                     fault = "flb_ra_translate")
          pk == PrefixKeyCopy(c, L.logstash_index, v)
          tm == gmtime_r(t.tv_sec)
          head == DocumentHead(c, tg, map_size, t)
          lbuf == IF c.logstash_format = FLB_TRUE
                  THEN ComposeLogstash(c, pk.buf, pk.len, tm) ELSE pk.buf
          idxf == IF c.logstash_format # FLB_TRUE
                     /\ c.current_time_index = FLB_TRUE
                  THEN strftime(IndexFormattedSize - 1, c.index, tm)
                  ELSE L.index_formatted
          es_index == IF c.logstash_format = FLB_TRUE THEN CStr(lbuf)
                      ELSE IF c.current_time_index = FLB_TRUE THEN idxf
                      ELSE c.index
          j1 == IF c.logstash_format = FLB_TRUE /\ c.generate_id = FLB_FALSE
                THEN HeaderNoId(c, es_index) ELSE L.j_index
          san == es_pack_map_content(map.via, c, fault = "flb_malloc")
          sbuf == head \o san.out
          j2 == IF c.generate_id = FLB_TRUE
                THEN HeaderWithId(c, es_index, es_uuid(HashInput(sbuf, map)))
                ELSE j1
          out_buf == flb_msgpack_raw_to_json_sds(
                         sbuf, fault = "flb_msgpack_raw_to_json_sds")
      IN IF san.ret = -1
         THEN [exit |-> "es_pack_map_content",
               L |-> Locals(t, lbuf, idxf, j1, AbortRecord(L.bulk))]
         ELSE IF out_buf.null
         THEN [exit |-> "flb_msgpack_raw_to_json_sds",
               L |-> Locals(t, lbuf, idxf, j2, AbortRecord(L.bulk))]
         ELSE IF fault = "es_bulk_append"
         THEN [exit |-> "es_bulk_append",
               L |-> Locals(t, lbuf, idxf, j2, AbortRecord(L.bulk))]
         ELSE [exit |-> "appended",
               L |-> Locals(t, lbuf, idxf, j2,
                            es_bulk_append(L.bulk, rec, j2, out_buf.buf))]

-----------------------------------------------------------------------------
(* The inputs of the model.                                                *)

S_id == <<"i", "d">>
S_p == <<"p">>
LongKey == [i \in 1..(BufKeySize - 1) |-> "k"]

Rec(sec, map) == Arr(<<UInt(sec), map>>)

M_a == Map(<<KV(Str(S_id), Str(<<"a">>)), KV(Str(S_p), Str(<<"a", "b">>))>>)
M_b == Map(<<KV(Str(S_id), Str(<<"b">>))>>)
M_dot == Map(<<KV(Str(<<"a", ".", "b">>), Str(<<"a">>))>>)
M_und == Map(<<KV(Str(<<"a", "_", "b">>), Str(<<"a">>))>>)
M_long == Map(<<KV(Str(LongKey), UInt(1))>>)

\* Well-formed records: [timestamp, mapping].
Records == {Rec(0, M_a), Rec(86400, M_b), Rec(0, M_b), Rec(0, M_long)}

\* Entries the record loop skips.
Malformed == {UInt(7), Arr(<<>>), Arr(<<UInt(0)>>)}

Objects == Records \cup Malformed

\* msgpack_unpack_next finds no object: the input has ended.
NoObject == [type |-> "EOF", via |-> 0]

\* Readings of the wall clock (flb_time_get).
Now == {[tv_sec |-> 172800, tv_nsec |-> 0],
        [tv_sec |-> 259200, tv_nsec |-> 5000000]}

\* The clock read at line 291 and read again, no earlier, at line 376.
Clocks ==
    {[first |-> [tv_sec |-> 172800, tv_nsec |-> 0], second |-> now] :
        now \in Now}

\* What the uninitialised msgpack_object map of line 229 may point to when
\* line 336 reads it: unmapped memory, or key/value pairs left in memory.
StaleMaps ==
    {[mapped |-> FALSE, kv |-> <<>>],
     [mapped |-> TRUE, kv |-> <<KV(Nil, Nil)>>],
     [mapped |-> TRUE,
      kv |-> <<KV(Str(<<"x">>), Str(<<"x">>)),
               KV(Str(S_id), Str(<<"b">>)), KV(Nil, Nil)>>]}

IdFormats == {NULL, Sds(<<"x", "$", "[", "i", "d", "]">>)}

Config(lf, gid, idf, stn, cti, pk, idx, rd, itk) ==
    [index |-> idx, type |-> <<"t">>, suppress_type_name |-> stn,
     logstash_format |-> lf, logstash_prefix |-> <<"l", "g", "s">>,
     logstash_prefix_key |-> pk, ra_prefix_key |-> S_p,
     logstash_dateformat |-> <<"%", "d">>,
     time_key |-> <<"@">>, time_key_format |-> <<"%", "d">>,
     time_key_nanos |-> FALSE, include_tag_key |-> itk,
     tag_key |-> <<"g">>, generate_id |-> gid, replace_dots |-> rd,
     id_format |-> idf, current_time_index |-> cti,
     has_aws_auth |-> FALSE]

Configs ==
    {Config(lf, gid, idf, stn, cti, pk, idx, rd, FALSE) :
        lf \in BOOLEAN, gid \in BOOLEAN, idf \in IdFormats,
        stn \in BOOLEAN, cti \in BOOLEAN, pk \in {NULL, Sds(S_p)},
        idx \in {<<"i", "%", "d">>}, rd \in {FALSE}}

-----------------------------------------------------------------------------
(* elasticsearch_format: the actions.                                      *)

UninitTime == [tv_sec |-> 0, tv_nsec |-> 0]
NoOut == [ptr_set |-> FALSE, ptr |-> <<>>, size_set |-> FALSE, size |-> 0]

\* The locals of elasticsearch_format before it runs.
FormatFresh ==
    /\ off = 0
    /\ tms = UninitTime
    /\ logstash_index = <<>>
    /\ index_formatted = <<>>
    /\ j_index = NoHeader
    /\ index_len = 0
    /\ bulk = NoBulk
    /\ ret = 0
    /\ out_data = NoOut
    /\ alloc_failed = FALSE
    /\ lookup_failed = {}

\* Lines 290-367: the header is generated once, before the loop, when
\* neither logstash_format nor generate_id is set.  The id template is
\* expanded against the map, which no record was read into yet.
PreGenerate(c, now, stale) ==
    LET tm == gmtime_r(now.tv_sec)
        es_index == strftime(IndexFormattedSize - 1, c.index, tm)
        p_id_format == IF c.id_format.null
                       THEN [segv |-> FALSE, text |-> <<>>]
                       ELSE IdFormatScan(c.id_format.buf, stale)
    IN [tms |-> now, index_formatted |-> es_index,
        segv |-> p_id_format.segv,
        j_index |-> IF c.id_format.null THEN HeaderNoId(c, es_index)
                    ELSE HeaderWithId(c, es_index, p_id_format.text)]

\* Lines 241-377: validation of the first object, creation of the bulk
\* composer, the logstash prefix, the pre-generated header, the clock.
FormatBegin ==
    /\ pc = "entry"
    /\ \E first \in objects \cup {NoObject}, fail \in BOOLEAN,
          now1 \in {clock.first}, now2 \in {clock.second},
          stale \in StaleMaps :
        /\ data' = IF first = NoObject THEN <<>> ELSE <<first>>
        /\ IF \/ first = NoObject
              \/ first.type # "ARRAY"
              \/ Len(first.via) = 0
              \/ fail
           THEN /\ pc' = "returned"
                /\ ret' = -1
                /\ alloc_failed' = (/\ first # NoObject
                                    /\ first.type = "ARRAY"
                                    /\ Len(first.via) # 0)
                /\ UNCHANGED <<off, tms, logstash_index, index_formatted,
                               lookup_failed,
                               j_index, index_len, bulk, out_data>>
           ELSE
           \E g \in {PreGenerate(ctx, now1, stale)} :
             LET pre == ctx.logstash_format = FLB_FALSE
                        /\ ctx.generate_id = FLB_FALSE
             IN /\ bulk' = es_bulk_create
                /\ logstash_index' =
                       IF ctx.logstash_format = FLB_TRUE
                       THEN Memcpy(logstash_index, 0,
                                   ctx.logstash_prefix \o <<NUL>>)
                       ELSE logstash_index
                /\ index_formatted' =
                       IF pre THEN g.index_formatted ELSE index_formatted
                /\ j_index' = IF pre /\ ~g.segv THEN g.j_index ELSE j_index
                /\ index_len' = IF pre /\ ~g.segv
                                THEN Len(HeaderText(g.j_index)) ELSE index_len
                /\ tms' = IF pre /\ g.segv THEN g.tms
                          ELSE IF ctx.current_time_index = FLB_TRUE THEN now2
                          ELSE IF pre THEN g.tms ELSE tms
                /\ pc' = IF pre /\ g.segv THEN "segv" ELSE "loop"
                /\ UNCHANGED <<off, ret, out_data, alloc_failed, lookup_failed>>
    /\ UNCHANGED <<envvars, history, flushvars, sancall, idcall, conf, hdrcall>>

\* Lines 380-550: msgpack_unpack_next yields one more object and the loop
\* body runs on it.
FormatRecord ==
    /\ pc = "loop"
    /\ off < MaxRecords
    /\ \E obj \in (IF off < Len(data) THEN {data[off + 1]} ELSE objects),
          fault \in Faults :
      \E r \in {FormatOne(ctx, tag,
                            Locals(tms, logstash_index, index_formatted,
                                   j_index, bulk),
                            obj, off + 1, fault)} :
        LET failed == r.exit \notin {"continue", "appended"}
        IN /\ fault \in {NoFault, "flb_ra_translate"} \/ failed
           /\ alloc_failed' = (fault \notin {NoFault, "flb_ra_translate"})
           /\ lookup_failed' =
                 IF /\ fault = "flb_ra_translate"
                    /\ ~Skipped(obj)
                    /\ ~ctx.logstash_prefix_key.null
                 THEN lookup_failed \cup {off + 1} ELSE lookup_failed
           /\ data' = IF off < Len(data) THEN data ELSE Append(data, obj)
           /\ off' = off + 1
           /\ tms' = r.L.tms
           /\ logstash_index' = r.L.logstash_index
           /\ index_formatted' = r.L.index_formatted
           /\ j_index' = r.L.j_index
           /\ index_len' = IF r.L.j_index = j_index THEN index_len
                           ELSE Len(HeaderText(r.L.j_index))
           /\ bulk' = r.L.bulk
           /\ pc' = IF failed THEN "returned" ELSE "loop"
           /\ ret' = IF failed THEN -1 ELSE ret
           /\ out_data' = IF r.exit = "es_bulk_append"
                          THEN [out_data EXCEPT !.size_set = TRUE, !.size = 0]
                          ELSE out_data
    /\ UNCHANGED <<envvars, history, flushvars, sancall, idcall, conf, hdrcall>>

\* Lines 551-568: the input has ended; the storage goes to the caller and
\* only the composer's context is released.
FormatEnd ==
    /\ pc = "loop"
    /\ off = Len(data)
    /\ out_data' = [ptr_set |-> TRUE, ptr |-> bulk.buf,
                    size_set |-> TRUE, size |-> Len(bulk.buf)]
    /\ bulk' = [bulk EXCEPT !.ctx = "freed"]
    /\ pc' = "returned"
    /\ ret' = 0
    /\ UNCHANGED <<envvars, data, off, tms, logstash_index, index_formatted,
                   j_index, index_len, alloc_failed,
                   lookup_failed, history, flushvars, sancall, idcall, conf, hdrcall>>

NoFlush == [u_conn |-> "none", pack |-> "none", c |-> "none",
            signature |-> "none", http |-> "none",
            frees |-> 0, stale_read |-> FALSE]
NoResp == [ret |-> 0, status |-> 0, payload |-> <<>>, root |-> Nil,
           complete |-> FALSE]
NoCheck == [done |-> FALSE, val |-> FALSE]
NoSan == [pc |-> "none"]
NoIdCall == [pc |-> "none"]
NoConf == [pc |-> "none"]
NoHdrCall == [pc |-> "none"]

\* elasticsearch_format called on its own (the test_formatter callback).
Init ==
    /\ ctx \in Configs
    /\ tag = <<"t", "g">>
    /\ objects = Objects
    /\ clock \in Clocks
    /\ sancall = NoSan
    /\ idcall = NoIdCall
    /\ conf = NoConf
    /\ hdrcall = NoHdrCall
    /\ data = <<>>
    /\ pc = "entry"
    /\ FormatFresh
    /\ history = {}
    /\ fpc = "none"
    /\ flush = NoFlush
    /\ verdict = "none"
    /\ resp = NoResp
    /\ check = NoCheck

Next == FormatBegin \/ FormatRecord \/ FormatEnd

Spec == Init /\ [][Next]_vars

-----------------------------------------------------------------------------
(* Properties of elasticsearch_format.                                     *)

\* The lines written so far, and the action lines among them.
Lines == bulk.buf
ActionLines == {i \in 1..Len(Lines) : Lines[i].kind = "action"}

\* The record an output line was made from.
RecordOf(line) == data[line.rec]
MapOf(line) == RecordOf(line).via[2]

WellFormedRecord(obj) ==
    /\ obj.type = "ARRAY"
    /\ Len(obj.via) = 2
    /\ obj.via[1].type = "POSITIVE_INTEGER"
    /\ obj.via[2].type = "MAP"

\* The date of an index name in logstash mode: the date format applied to
\* the time of the record, or to the clock when current_time_index is set.
DateOf(line) ==
    StrftimeText(ctx.logstash_dateformat,
                 gmtime_r(IF ctx.current_time_index THEN tms.tv_sec
                          ELSE RecordOf(line).via[1].via))

\* C1: in logstash mode with logstash_prefix_key configured, a record in
\* which the key is not found gets the index name
\* <logstash_prefix>-<date>, whatever earlier records of the batch held.
C1_StaticPrefixFallback ==
    (ctx.logstash_format /\ ~ctx.logstash_prefix_key.null) =>
        \A i \in ActionLines :
            RaLookup(ctx.ra_prefix_key, MapOf(Lines[i]).via) = <<>> =>
                Lines[i].hdr.index =
                    ctx.logstash_prefix \o <<"-">> \o DateOf(Lines[i])

\* C2: a batch of N well-formed records formatted without a failure
\* returns 0 and hands out exactly 2N lines: for the i-th record its
\* action line, directly followed by its document line, which ends with
\* the fields of that record.
C2_LinePairs ==
    (/\ pc = "returned"
     /\ ~alloc_failed
     /\ data # <<>>
     /\ \A i \in 1..Len(data) : WellFormedRecord(data[i])) =>
        /\ ret = 0
        /\ out_data.ptr_set
        /\ Len(out_data.ptr) = 2 * Len(data)
        /\ \A i \in 1..Len(data) :
              LET a == out_data.ptr[2 * i - 1]
                  d == out_data.ptr[2 * i]
                  fields == IF ctx.replace_dots THEN <<>>
                            ELSE PackEach(data[i].via[2].via, TRUE)
              IN /\ a.kind = "action" /\ a.rec = i
                 /\ d.kind = "doc" /\ d.rec = i
                 /\ Len(d.json) >= Len(fields)
                 /\ Drop(d.json, Len(d.json) - Len(fields)) = fields

C2_Witness ==
    /\ pc = "returned"
    /\ ret = 0
    /\ ~alloc_failed
    /\ Len(data) = 2
    /\ \A i \in 1..Len(data) : WellFormedRecord(data[i])
    /\ data[1] # data[2]
    /\ Len(out_data.ptr) = 4

\* C3: when a record fails after the bulk composer was created (the
\* sanitizer, the JSON conversion or the append), the call returns -1,
\* the failing record is the last one read and left no line, the storage
\* of the bulk buffer is released, and *out_data was never assigned.
C3_FailureReleasesBulk ==
    (pc = "returned" /\ bulk.ctx # "none" /\ (alloc_failed \/ ret = -1)) =>
        /\ ret = -1
        /\ bulk.ctx = "freed"
        /\ bulk.ptr = "freed"
        /\ ~out_data.ptr_set
        /\ off = Len(data)
        /\ \A i \in 1..Len(Lines) : Lines[i].rec < off

C3_Witness ==
    /\ pc = "returned"
    /\ alloc_failed
    /\ ret = -1
    /\ off = 2
    /\ Len(Lines) = 2
    /\ bulk.ptr = "freed"

\* C7: with logstash_format and current_time_index both off, every action
\* line of the batch carries the index pattern formatted against one
\* reading of the clock, in every id mode.
C7_IndexFormatted ==
    (~ctx.logstash_format /\ ~ctx.current_time_index) =>
        \E now \in Now :
            \A i \in ActionLines :
                Lines[i].hdr.index =
                    StrftimeText(ctx.index, gmtime_r(now.tv_sec))

\* The substitution the id template stands for: each $[name] is replaced
\* by the value of the first top-level string field called name.
FieldValue(kvs, name) ==
    IF \E i \in 1..Len(kvs) :
          /\ kvs[i].key.type = "STR" /\ kvs[i].val.type = "STR"
          /\ Len(kvs[i].key.via) = Len(name)
          /\ StrncasecmpEq(kvs[i].key.via, name, Len(name))
    THEN kvs[CHOOSE i \in 1..Len(kvs) :
               /\ kvs[i].key.type = "STR" /\ kvs[i].val.type = "STR"
               /\ Len(kvs[i].key.via) = Len(name)
               /\ StrncasecmpEq(kvs[i].key.via, name, Len(name))
               /\ \A j \in 1..(i - 1) :
                     ~(/\ kvs[j].key.type = "STR" /\ kvs[j].val.type = "STR"
                       /\ Len(kvs[j].key.via) = Len(name)
                       /\ StrncasecmpEq(kvs[j].key.via, name, Len(name)))
            ].val.via
    ELSE <<>>

RECURSIVE TemplateOf(_, _)
TemplateOf(fmt, kvs) ==
    LET at == Strstr(fmt, <<"$", "[">>)
    IN IF at = 0 THEN fmt
       ELSE LET from == Drop(fmt, at - 1)
                q == Strstr(from, <<"]">>)
            IN IF q = 0 THEN Take(fmt, at - 1)
               ELSE Take(fmt, at - 1)
                      \o FieldValue(kvs, SubSeq(from, 3, q - 1))
                      \o TemplateOf(Drop(from, q), kvs)

\* C8: in template id mode the _id of each action line is the template
\* with the fields of that very record substituted.
C8_TemplatePerRecord ==
    (~ctx.id_format.null /\ ~ctx.generate_id /\ ~ctx.logstash_format) =>
        \A i \in ActionLines :
            Lines[i].hdr.id = TemplateOf(ctx.id_format.buf, MapOf(Lines[i]).via)

\* C10: an action line has a _type exactly when suppress_type_name is
\* off, and an _id exactly when generate_id or id_format is configured.
C10_TypeAndId ==
    \A i \in ActionLines :
        /\ HasType(Lines[i].hdr) <=> ~ctx.suppress_type_name
        /\ HasId(Lines[i].hdr) <=> (ctx.generate_id \/ ~ctx.id_format.null)

-----------------------------------------------------------------------------
(* The response of the bulk API and elasticsearch_error_check.             *)

\* Largest number of top-level entries of a response document.
MaxEntries == 2

K_errors == <<"e", "r", "r", "o", "r", "s">>
K_items == <<"i", "t", "e", "m", "s">>
K_took == <<"t", "o", "o", "k">>
K_error == <<"e", "r", "r", "o", "r">>
K_errorsx == <<"e", "r", "r", "o", "r", "s", "x">>
K_Errors == <<"E", "r", "r", "o", "r", "s">>

\* The JSON text of a response document, as the server writes it.
RECURSIVE ToJson(_)
RECURSIVE JoinJson(_, _)
JoinJson(els, isMap) ==
    IF els = <<>> THEN <<>>
    ELSE (IF isMap
          THEN ToJson(Head(els).key) \o <<":">> \o ToJson(Head(els).val)
          ELSE ToJson(Head(els)))
         \o (IF Len(els) > 1 THEN <<",">> ELSE <<>>)
         \o JoinJson(Tail(els), isMap)

ToJson(o) ==
    CASE o.type = "STR" -> <<"\"">> \o o.via \o <<"\"">>
      [] o.type = "BOOLEAN" ->
            IF o.via THEN <<"t", "r", "u", "e">> ELSE <<"f", "a", "l", "s", "e">>
      [] o.type = "POSITIVE_INTEGER" -> Dec(o.via, 1)
      [] o.type = "ARRAY" -> <<"[">> \o JoinJson(o.via, FALSE) \o <<"]">>
      [] o.type = "MAP" -> <<"{">> \o JoinJson(o.via, TRUE) \o <<"}">>
      [] OTHER -> <<"n", "u", "l", "l">>

\* Top-level entries a response may hold.
ResponseEntries ==
    {KV(Str(K_errors), Bool(FALSE)), KV(Str(K_errors), Bool(TRUE)),
     KV(Str(K_errors), UInt(0)), KV(Str(K_items), Arr(<<>>)),
     KV(Str(K_took), UInt(1)), KV(Str(K_error), Bool(FALSE)),
     KV(Str(K_errorsx), Bool(FALSE)), KV(Str(K_Errors), Bool(FALSE))}

RECURSIVE SeqsUpTo(_, _)
SeqsUpTo(S, n) ==
    IF n = 0 THEN {<<>>}
    ELSE LET shorter == SeqsUpTo(S, n - 1)
         IN shorter \cup {Append(q, x) : q \in shorter, x \in S}

ResponseRoots ==
    {Map(kvs) : kvs \in SeqsUpTo(ResponseEntries, MaxEntries)}
        \cup {Arr(<<>>), Arr(<<Map(<<KV(Str(K_errors), Bool(FALSE))>>)>>)}

\* "\"errors\":false,\"items\":["
ErrorsFalseItems == <<"\"", "e", "r", "r", "o", "r", "s", "\"", ":", "f", "a", "l", "s", "e", ",", "\"", "i", "t", "e", "m", "s", "\"", ":", "[">>

\* A response: the document the server sent and the bytes of it that the
\* HTTP client kept.  The payload is complete when nothing was cut off.
Response(status, root, n) ==
    [ret |-> 0, status |-> status, payload |-> Take(ToJson(root), n),
     root |-> root, complete |-> (n >= Len(ToJson(root)))]

\* A payload that is no JSON document at all.
NotJson(status, text) ==
    [ret |-> 0, status |-> status, payload |-> text, root |-> Nil,
     complete |-> FALSE]

Responses ==
    {Response(200, root, n) :
        root \in ResponseRoots, n \in 0..(8 * MaxEntries + 28)}
        \cup {NotJson(200, <<"{", NUL>> \o ErrorsFalseItems)}
        \cup {NotJson(200, <<"x">>), NotJson(200, <<"<", "h", "t", "m", "l", ">">>)}

\* flb_pack_json: a complete document is converted to msgpack, anything
\* else is refused.
flb_pack_json(r) ==
    IF r.complete THEN [ret |-> 0, root |-> r.root]
    ELSE [ret |-> -1, root |-> Nil]

\* Lines 621-635: the payload could not be converted.
UnparsedCheck(payload) ==
    IF Len(payload) <= 0 THEN FLB_TRUE
    ELSE IF Strstr(CStr(payload), ErrorsFalseItems) # 0 THEN FLB_FALSE
    ELSE FLB_TRUE

\* A comparison of the first six bytes only.
KeyHasErrorsPrefix(key) == Take(key.via, 6) = K_errors

\* Lines 664-668: a string key of six bytes equal to "errors".
KeyIsErrors(key) == Len(key.via) = 6 /\ Take(key.via, 6) = K_errors

\* Lines 654-688: the loop over the entries of the root map, from entry i.
RECURSIVE ScanErrors(_, _)
ScanErrors(kvs, i) ==
    IF i > Len(kvs) THEN FLB_TRUE
    ELSE
        LET key == kvs[i].key
            val == kvs[i].val
        IN IF key.type # "STR" THEN FLB_TRUE
           ELSE IF KeyIsErrors(key)
           THEN (IF val.type # "BOOLEAN" THEN FLB_TRUE
                 ELSE IF val.via THEN FLB_TRUE
                 ELSE FLB_FALSE)
           ELSE ScanErrors(kvs, i + 1)

\* elasticsearch_error_check: FLB_TRUE when the response reports an error
\* or cannot be trusted.
elasticsearch_error_check(r) ==
    LET packed == flb_pack_json(r)
    IN IF packed.ret = -1 THEN UnparsedCheck(r.payload)
       ELSE IF packed.root.type # "MAP" THEN FLB_TRUE
       ELSE ScanErrors(packed.root.via, 1)

\* elasticsearch_error_check applied to a response.
ErrorCheck ==
    /\ fpc = "check"
    /\ ~check.done
    /\ check' = [done |-> TRUE, val |-> elasticsearch_error_check(resp)]
    /\ UNCHANGED <<envvars, sancall, idcall, conf, hdrcall, data, fmtvars, history, fpc, flush, verdict,
                   resp>>

InitCheck ==
    /\ ctx \in {Config(FALSE, FALSE, NULL, FALSE, FALSE, NULL,
                       <<"i">>, FALSE, FALSE)}
    /\ tag = <<"t", "g">>
    /\ objects = {}
    /\ clock = [first |-> UninitTime, second |-> UninitTime]
    /\ sancall = NoSan
    /\ idcall = NoIdCall
    /\ conf = NoConf
    /\ hdrcall = NoHdrCall
    /\ data = <<>>
    /\ pc = "idle"
    /\ FormatFresh
    /\ history = {}
    /\ fpc = "check"
    /\ flush = NoFlush
    /\ verdict = "none"
    /\ resp \in Responses
    /\ check = NoCheck

NextCheck == ErrorCheck

SpecCheck == InitCheck /\ [][NextCheck]_vars

\* Whether text occurs in payload.
Occurs(text, payload) ==
    \E i \in 1..Len(payload) :
        /\ i + Len(text) - 1 <= Len(payload)
        /\ \A j \in 1..Len(text) : payload[i + j - 1] = text[j]

\* The top-level entries of the response called exactly "errors".
ErrorsEntries(root) ==
    {i \in 1..Len(root.via) : root.via[i].key = Str(K_errors)}

\* C5: for a payload that is a complete JSON document, the validator
\* reports no error exactly when the root is a map and the first of its
\* entries called "errors" holds the boolean false.
C5_ParsedVerdict ==
    (check.done /\ resp.complete) =>
        (check.val = FLB_FALSE <=>
            /\ resp.root.type = "MAP"
            /\ ErrorsEntries(resp.root) # {}
            /\ LET first == CHOOSE i \in ErrorsEntries(resp.root) :
                                \A j \in ErrorsEntries(resp.root) : i <= j
               IN resp.root.via[first].val = Bool(FALSE))

C5_Witness ==
    /\ check.done
    /\ resp.complete
    /\ check.val = FLB_FALSE
    /\ Len(resp.root.via) = 2
    /\ resp.root.via[1].key # Str(K_errors)

\* C6: for a payload that is no complete JSON document, the validator
\* reports an error when the payload is empty, and otherwise reports no
\* error exactly when the payload contains "errors":false,"items":[
C6_UnparsedVerdict ==
    (check.done /\ ~resp.complete) =>
        /\ resp.payload = <<>> => check.val = FLB_TRUE
        /\ resp.payload # <<>> =>
              (check.val = FLB_FALSE <=>
                  Occurs(ErrorsFalseItems, resp.payload))

-----------------------------------------------------------------------------
(* cb_es_flush.                                                            *)

\* add_aws_auth: the signature, or NULL when the port cannot be stripped
\* from the host or the request cannot be signed.
add_aws_auth(strip_ret, signed) ==
    IF strip_ret < 0 THEN "none"
    ELSE IF ~signed THEN "none"
    ELSE "live"

\* flb_free(pack): frees counts the calls.
FreePack(f) == [f EXCEPT !.pack = "freed", !.frees = @ + 1]

\* pack is read: by flb_http_client (line 733), by flb_http_do, by the
\* trace of line 799.  stale_read tells whether it was read when freed.
ReadPack(f) == [f EXCEPT !.stale_read = @ \/ f.pack = "freed"]

\* A retry exit that keeps the payload.
RetryKeepsPack(f) ==
    [f EXCEPT !.c = "destroyed", !.u_conn = "released"]

\* The label retry: the client, the payload and the connection are let go.
Retry(f) ==
    [FreePack([f EXCEPT !.c = "destroyed"]) EXCEPT !.u_conn = "released"]

\* Lines 817-822: the same, and the signature when there is one.
Cleanup(f) ==
    [FreePack([f EXCEPT !.c = "destroyed"]) EXCEPT
        !.u_conn = "released",
        !.signature = IF @ = "live" THEN "destroyed" ELSE @]

\* A verdict that takes 200 for the only good status.
HttpVerdictOnly200(r) ==
    IF r.ret # 0 THEN "FLB_RETRY"
    ELSE IF r.status # 200 THEN "FLB_RETRY"
    ELSE IF Len(r.payload) > 0
    THEN (IF elasticsearch_error_check(r) = FLB_TRUE THEN "FLB_RETRY"
          ELSE "FLB_OK")
    ELSE "FLB_RETRY"

\* Lines 766-813: what the outcome of flb_http_do leads to.
HttpVerdict(r) ==
    IF r.ret # 0 THEN "FLB_RETRY"
    ELSE IF r.status # 200 /\ r.status # 201 THEN "FLB_RETRY"
    ELSE IF Len(r.payload) > 0
    THEN (IF elasticsearch_error_check(r) = FLB_TRUE THEN "FLB_RETRY"
          ELSE "FLB_OK")
    ELSE "FLB_RETRY"

\* Lines 712-716: the upstream connection.
FlushConnGet ==
    /\ fpc = "start"
    /\ \E got \in BOOLEAN :
          IF got
          THEN /\ flush' = [flush EXCEPT !.u_conn = "held"]
               /\ fpc' = "format"
               /\ pc' = "entry"
               /\ verdict' = verdict
          ELSE /\ flush' = flush
               /\ fpc' = "done"
               /\ pc' = pc
               /\ verdict' = "FLB_RETRY"
    /\ UNCHANGED <<envvars, sancall, idcall, conf, hdrcall, data, off, tms, logstash_index,
                   index_formatted,
                   j_index, index_len, bulk, ret, out_data, alloc_failed, lookup_failed,
                   history, resp, check>>

\* Lines 719-760: the result of elasticsearch_format, the HTTP client and
\* the request signature.
FlushFormatted ==
    /\ fpc = "format"
    /\ pc = "returned"
    /\ IF ret # 0
       THEN /\ flush' = [flush EXCEPT !.u_conn = "released"]
            /\ verdict' = "FLB_ERROR"
            /\ fpc' = "done"
       ELSE LET f == ReadPack([flush EXCEPT !.pack = "held", !.c = "live"])
            IN IF ctx.has_aws_auth = FLB_TRUE
               THEN \E strip_ret \in {-1, 0}, signed \in BOOLEAN :
                      LET signature == add_aws_auth(strip_ret, signed)
                      IN IF signature = "none"
                         THEN /\ flush' = Retry(f)
                              /\ verdict' = "FLB_RETRY"
                              /\ fpc' = "done"
                         ELSE /\ flush' = [f EXCEPT !.signature = signature]
                              /\ verdict' = verdict
                              /\ fpc' = "http"
               ELSE /\ flush' = f
                    /\ verdict' = verdict
                    /\ fpc' = "http"
    /\ UNCHANGED <<envvars, sancall, idcall, conf, hdrcall, data, fmtvars, history, resp, check>>

\* What flb_http_do may come back with.
FlushResponses ==
    {[Response(status, root, n) EXCEPT !.ret = r] :
        status \in {200, 201, 500}, r \in {0, -1},
        root \in {Map(<<KV(Str(K_errors), Bool(FALSE)),
                        KV(Str(K_items), Arr(<<>>))>>),
                  Map(<<KV(Str(K_errors), Bool(TRUE))>>)},
        n \in {0, Len(ErrorsFalseItems) + 1, 8 * MaxEntries + 28}}

\* Lines 766-830: the request is sent and the response judged.
FlushHttp ==
    /\ fpc = "http"
    /\ \E r \in FlushResponses :
        \E v \in {HttpVerdict(r)} :
          /\ resp' = r
          /\ check' = IF r.ret = 0 /\ r.status \in {200, 201}
                         /\ Len(r.payload) > 0
                      THEN [done |-> TRUE,
                            val |-> elasticsearch_error_check(r)]
                      ELSE check
          /\ verdict' = v
          /\ flush' = LET f == ReadPack([flush EXCEPT
                                  !.http = IF r.ret = 0 THEN "done"
                                           ELSE "failed"])
                      IN IF v = "FLB_OK" THEN Cleanup(f) ELSE Retry(f)
          /\ fpc' = "done"
    /\ UNCHANGED <<envvars, sancall, idcall, conf, hdrcall, data, fmtvars, history>>

FlushConfigs ==
    {[Config(FALSE, gid, idf, FALSE, FALSE, NULL, <<"i">>, FALSE, FALSE)
         EXCEPT !.has_aws_auth = aws] :
        gid \in BOOLEAN, idf \in IdFormats, aws \in BOOLEAN}

\* One call of cb_es_flush.
InitFlush ==
    /\ ctx \in FlushConfigs
    /\ tag = <<"t", "g">>
    /\ objects = {Rec(0, M_b), UInt(7)}
    /\ clock \in Clocks
    /\ sancall = NoSan
    /\ idcall = NoIdCall
    /\ conf = NoConf
    /\ hdrcall = NoHdrCall
    /\ data = <<>>
    /\ pc = "idle"
    /\ FormatFresh
    /\ history = {}
    /\ fpc = "start"
    /\ flush = NoFlush
    /\ verdict = "none"
    /\ resp = NoResp
    /\ check = NoCheck

NextFlush ==
    \/ FlushConnGet
    \/ FormatBegin
    \/ FormatRecord
    \/ FormatEnd
    \/ FlushFormatted
    \/ FlushHttp

SpecFlush == InitFlush /\ [][NextFlush]_vars

\* C4: cb_es_flush returns FLB_OK exactly when the connection was
\* acquired, formatting succeeded, the request completed, the status is 200
\* or 201, the payload is not empty and the validator reports no error; and
\* whenever formatting succeeded, any other return is FLB_RETRY.
C4_FlushVerdict ==
    LET formatted == pc = "returned" /\ ret = 0
    IN verdict # "none" =>
        /\ verdict = "FLB_OK" <=>
              /\ flush.u_conn # "none"
              /\ formatted
              /\ flush.http = "done"
              /\ resp.status \in {200, 201}
              /\ resp.payload # <<>>
              /\ elasticsearch_error_check(resp) = FLB_FALSE
        /\ (formatted /\ verdict # "FLB_OK") => verdict = "FLB_RETRY"

C4_Witness ==
    /\ verdict = "FLB_OK"
    /\ resp.status = 201
    /\ ~resp.complete
    /\ Len(data) = 2

-----------------------------------------------------------------------------
(* The document id of generate_id, over two calls of elasticsearch_format. *)

Tags == {<<"t", "g">>, <<"t", "x">>}

\* The serialized sanitized document of a record: the time field, the tag
\* field when configured, and the sanitized fields.
SerializedDoc(c, tg, obj, now) ==
    LET t == IF c.current_time_index = FLB_FALSE
             THEN flb_time_pop_from_msgpack(now, obj) ELSE now
        map == obj.via[2]
    IN DocumentHead(c, tg, Len(map.via), t)
           \o es_pack_map_content(map.via, c, FALSE).out

\* The documents of the output with the ids of their action lines.
DocIds ==
    {[doc |-> SerializedDoc(ctx, tag, RecordOf(Lines[i]), tms),
      obj |-> RecordOf(Lines[i]),
      id |-> Lines[i].hdr.id] : i \in ActionLines}

\* elasticsearch_format is called once more, with the same configuration;
\* what the first call wrote is remembered.
FormatAgain ==
    /\ pc = "returned"
    /\ ret = 0
    /\ history = {}
    /\ history' = DocIds
    /\ tag' \in Tags
    /\ data' = <<>>
    /\ pc' = "entry"
    /\ off' = 0
    /\ tms' = UninitTime
    /\ logstash_index' = <<>>
    /\ index_formatted' = <<>>
    /\ j_index' = NoHeader
    /\ index_len' = 0
    /\ bulk' = NoBulk
    /\ out_data' = NoOut
    /\ alloc_failed' = FALSE
    /\ lookup_failed' = {}
    /\ clock' \in Clocks
    /\ UNCHANGED <<ctx, objects, ret, flushvars, sancall, idcall, conf, hdrcall>>

HashConfigs ==
    {Config(lf, TRUE, NULL, FALSE, FALSE, NULL, <<"i">>, rd, itk) :
        lf \in BOOLEAN, rd \in BOOLEAN, itk \in BOOLEAN}

InitHash ==
    /\ ctx \in HashConfigs
    /\ tag \in Tags
    /\ objects = {Rec(0, M_dot), Rec(0, M_und), Rec(86400, M_dot)}
    /\ clock \in Clocks
    /\ sancall = NoSan
    /\ idcall = NoIdCall
    /\ conf = NoConf
    /\ hdrcall = NoHdrCall
    /\ data = <<>>
    /\ pc = "entry"
    /\ FormatFresh
    /\ history = {}
    /\ fpc = "none"
    /\ flush = NoFlush
    /\ verdict = "none"
    /\ resp = NoResp
    /\ check = NoCheck

NextHash == FormatBegin \/ FormatRecord \/ FormatEnd \/ FormatAgain

SpecHash == InitHash /\ [][NextHash]_vars

HexDigits == {DigitChars[i] : i \in 1..16}

\* Eight, four, four, four and twelve hexadecimal digits between dashes.
UuidShaped(id) ==
    /\ Len(id) = 36
    /\ \A i \in 1..Len(id) :
          IF i \in {9, 14, 19, 24} THEN id[i] = "-" ELSE id[i] \in HexDigits

\* C9: with generate_id, the _id is decided by the bytes of the serialized
\* sanitized document alone: records of the same call or of two calls
\* whose documents are byte-identical carry the same _id, and every _id is
\* 36 characters of hexadecimal digits grouped 8-4-4-4-12.
C9_HashIdOfDocument ==
    /\ \A p, q \in history \cup DocIds : p.doc = q.doc => p.id = q.id
    /\ \A p \in history \cup DocIds : UuidShaped(p.id)

C9_Witness ==
    \E p \in history, q \in DocIds :
        /\ p.doc = q.doc
        /\ p.obj # q.obj
        /\ p.id = q.id

-----------------------------------------------------------------------------
(* The document line and the entries the loop skips.                       *)

M_nest ==
    Map(<<KV(Str(<<"a", ".", "b">>),
             Map(<<KV(Str(<<"c", ".", "d">>), Str(<<"v", ".", "w">>))>>)),
          KV(Str(S_id), Arr(<<UInt(1), Map(<<KV(Str(<<".">>), Nil)>>)>>))>>)

\* An array of three elements: no record.
TooLong == Arr(<<UInt(0), M_b, UInt(1)>>)

DocConfigs ==
    {Config(lf, gid, NULL, FALSE, FALSE, NULL, <<"i">>, rd, itk) :
        lf \in BOOLEAN, gid \in BOOLEAN, rd \in BOOLEAN, itk \in BOOLEAN}

InitDoc ==
    /\ ctx \in DocConfigs
    /\ tag = <<"t", "g">>
    /\ objects = {Rec(0, M_a), Rec(86400, M_nest), UInt(7),
                  Arr(<<UInt(0)>>), TooLong}
    /\ clock = [first |-> UninitTime, second |-> UninitTime]
    /\ sancall = NoSan
    /\ idcall = NoIdCall
    /\ conf = NoConf
    /\ hdrcall = NoHdrCall
    /\ data = <<>>
    /\ pc = "entry"
    /\ FormatFresh
    /\ history = {}
    /\ fpc = "none"
    /\ flush = NoFlush
    /\ verdict = "none"
    /\ resp = NoResp
    /\ check = NoCheck

NextDoc == FormatBegin \/ FormatRecord \/ FormatEnd

SpecDoc == InitDoc /\ [][NextDoc]_vars

DocLines == {i \in 1..Len(Lines) : Lines[i].kind = "doc"}

\* The keys of the entries that start at token i, in the order written.
RECURSIVE KeysFrom(_, _)
KeysFrom(toks, i) ==
    IF i > Len(toks) \/ i = 0 THEN <<>>
    ELSE <<toks[i]>> \o KeysFrom(toks, UnpackObjects(toks, i, 2))

\* A field name as the document is to carry it.
NameInDocument(k) ==
    IF ctx.replace_dots
    THEN [j \in 1..Len(k.via) |-> IF k.via[j] = "." THEN "_" ELSE k.via[j]]
    ELSE k.via

\* C11: in every document line the time key comes first, the tag key
\* second when include_tag_key is set, then the fields of the record in
\* their order; and the map header declares exactly the pairs written:
\* the fields of the record and one more, or two more with the tag.
C11_DocumentOrder ==
    \A i \in DocLines :
        LET d == Lines[i].json
            fields == MapOf(Lines[i]).via
            extra == IF ctx.include_tag_key THEN 2 ELSE 1
            keys == KeysFrom(d, 2)
        IN /\ d[1].tok = "map"
           /\ d[1].n = Len(fields) + extra
           /\ UnpackObjects(d, 2, 2 * d[1].n) = Len(d) + 1
           /\ Len(keys) = d[1].n
           /\ keys[1].tok = "str" /\ keys[1].s = ctx.time_key
           /\ d[3].tok = "str"
           /\ ctx.include_tag_key =>
                 /\ keys[2].tok = "str" /\ keys[2].s = ctx.tag_key
                 /\ d[5].tok = "str" /\ d[5].s = tag
           /\ \A k \in 1..Len(fields) :
                 /\ keys[extra + k].tok = "str"
                 /\ keys[extra + k].s = NameInDocument(fields[k].key)

C11_Witness ==
    \E i \in DocLines :
        /\ ctx.include_tag_key
        /\ ctx.replace_dots
        /\ MapOf(Lines[i]) = M_nest
        /\ Len(Lines) = 4

\* An entry the record loop takes for a record.
IsPair(obj) == obj.type = "ARRAY" /\ Len(obj.via) = 2

\* The records of the lines to expect after the first k entries.
RECURSIVE PairLines(_)
PairLines(k) ==
    IF k = 0 THEN <<>>
    ELSE PairLines(k - 1)
            \o (IF IsPair(data[k]) THEN <<k, k>> ELSE <<>>)

\* C17: while the loop runs and when it has ended well, the buffer holds
\* exactly an action line and a document line for each entry read that is
\* an array of two elements, in order; any other entry added nothing and
\* took nothing away.
C17_SkipMalformed ==
    (pc = "loop" \/ (pc = "returned" /\ ret = 0)) =>
        /\ Len(Lines) = Len(PairLines(off))
        /\ \A i \in 1..Len(Lines) :
              /\ Lines[i].rec = PairLines(off)[i]
              /\ Lines[i].kind = IF i % 2 = 1 THEN "action" ELSE "doc"

C17_Witness ==
    /\ pc = "returned"
    /\ ret = 0
    /\ Len(data) = 2
    /\ data[1] = TooLong
    /\ IsPair(data[2])
    /\ Len(out_data.ptr) = 2

-----------------------------------------------------------------------------
(* es_pack_map_content called on a map, and called again on its output.    *)

\* The most entries of a map handed to es_pack_map_content here.
MaxFields == 2

\* msgpack_unpack_next on a packer's output: the object that starts at
\* token i and the position after it, 0 when the tokens end too early.
RECURSIVE Unpack(_, _)
RECURSIVE UnpackMany(_, _, _)
Unpack(toks, i) ==
    IF i > Len(toks) THEN [obj |-> NoObject, next |-> 0]
    ELSE
        LET t == toks[i]
        IN CASE t.tok = "str" -> [obj |-> Str(t.s), next |-> i + 1]
             [] t.tok = "bin" -> [obj |-> Bin(t.s), next |-> i + 1]
             [] t.tok = "uint" -> [obj |-> UInt(t.n), next |-> i + 1]
             [] t.tok = "bool" -> [obj |-> Bool(t.n = 1), next |-> i + 1]
             [] t.tok = "nil" -> [obj |-> Nil, next |-> i + 1]
             [] t.tok = "array" ->
                   LET r == UnpackMany(toks, i + 1, t.n)
                   IN IF r.next = 0 THEN [obj |-> NoObject, next |-> 0]
                      ELSE [obj |-> Arr(r.els), next |-> r.next]
             [] t.tok = "map" ->
                   LET r == UnpackMany(toks, i + 1, 2 * t.n)
                   IN IF r.next = 0 THEN [obj |-> NoObject, next |-> 0]
                      ELSE [obj |-> Map([j \in 1..t.n |->
                                           KV(r.els[2 * j - 1], r.els[2 * j])]),
                            next |-> r.next]

UnpackMany(toks, i, count) ==
    IF count = 0 THEN [els |-> <<>>, next |-> i]
    ELSE
        LET h == Unpack(toks, i)
        IN IF h.next = 0 THEN [els |-> <<>>, next |-> 0]
           ELSE
             LET r == UnpackMany(toks, h.next, count - 1)
             IN [els |-> <<h.obj>> \o r.els, next |-> r.next]

\* The map a caller reads back from tmp_sbuf: the header written by the
\* caller (lines 419-423, 151, 181) followed by the content; NoObject when
\* the buffer holds no complete map and nothing else.
Sanitized(n, out) ==
    LET r == Unpack(msgpack_pack_map(n) \o out, 1)
    IN IF r.next = Len(out) + 2 THEN r.obj ELSE NoObject

\* A key of sizeof(buf_key) - 1 bytes with a dot in it.
LongDotKey == [i \in 1..(BufKeySize - 1) |-> IF i = 2 THEN "." ELSE "k"]

S_vw == <<"v", ".", "w">>

SanEntries ==
    {KV(Str(<<"a", ".", "b", ".">>), Str(S_vw)),
     KV(Str(<<"a", "_", "b">>), UInt(1)),
     KV(Bin(<<"c", ".", "d">>), Nil),
     KV(UInt(5), Bool(TRUE)),
     KV(Str(LongDotKey), UInt(1)),
     KV(Str(<<".", "x">>), Map(<<KV(Str(<<"c", ".", "d">>), Str(S_vw))>>)),
     KV(Str(<<"s">>),
        Arr(<<Str(S_vw), Map(<<KV(Str(<<"e", ".", "f">>), UInt(1))>>),
              Arr(<<Map(<<KV(Bin(<<".">>), Nil)>>)>>)>>)),
     KV(Str(<<"n">>),
        Map(<<KV(Str(LongDotKey), UInt(1)), KV(Str(<<"z">>), UInt(2))>>)),
     KV(Str(<<"q">>),
        Arr(<<Map(<<KV(Str(LongDotKey), UInt(1))>>), UInt(3)>>))}

SanMaps ==
    {Map(kvs) : kvs \in UNION {[1..n -> SanEntries] : n \in 0..MaxFields}}

SanConfigs ==
    {Config(FALSE, FALSE, NULL, FALSE, FALSE, NULL, <<"i">>, rd, FALSE) :
        rd \in BOOLEAN}

NoResult == [ret |-> 0, out |-> <<>>]

InitSan ==
    /\ ctx \in SanConfigs
    /\ tag = <<"t", "g">>
    /\ objects = {}
    /\ clock = [first |-> UninitTime, second |-> UninitTime]
    /\ \E m \in SanMaps, nomem \in BOOLEAN :
          sancall = [pc |-> "in", map |-> m, nomem |-> nomem,
                     first |-> NoResult, second |-> NoResult]
    /\ idcall = NoIdCall
    /\ conf = NoConf
    /\ hdrcall = NoHdrCall
    /\ data = <<>>
    /\ pc = "idle"
    /\ FormatFresh
    /\ history = {}
    /\ fpc = "none"
    /\ flush = NoFlush
    /\ verdict = "none"
    /\ resp = NoResp
    /\ check = NoCheck

\* es_pack_map_content(&tmp_pck, map, ctx), as line 503 calls it.
Sanitize ==
    /\ sancall.pc = "in"
    /\ sancall' = [sancall EXCEPT
                      !.pc = "once",
                      !.first = es_pack_map_content(sancall.map.via, ctx,
                                                    sancall.nomem)]
    /\ UNCHANGED <<envvars, idcall, conf, hdrcall, data, fmtvars, history, flushvars>>

\* The same call on the map that the first call wrote.
SanitizeAgain ==
    /\ sancall.pc = "once"
    /\ sancall.first.ret = 0
    /\ \E m \in {Sanitized(Len(sancall.map.via), sancall.first.out)} :
          /\ m.type = "MAP"
          /\ sancall' = [sancall EXCEPT
                            !.pc = "twice",
                            !.second = es_pack_map_content(m.via, ctx,
                                                           sancall.nomem)]
    /\ UNCHANGED <<envvars, idcall, conf, hdrcall, data, fmtvars, history, flushvars>>

NextSan == Sanitize \/ SanitizeAgain

SpecSan == InitSan /\ [][NextSan]_vars

\* Whether some key of the value, at any depth, has to be spilled.
RECURSIVE HasOversizedKey(_)
HasOversizedKey(o) ==
    CASE o.type = "MAP" ->
            \E j \in 1..Len(o.via) :
                \/ /\ o.via[j].key.type \in {"STR", "BIN"}
                   /\ Len(o.via[j].key.via) >= BufKeySize - 1
                \/ HasOversizedKey(o.via[j].val)
      [] o.type = "ARRAY" -> \E j \in 1..Len(o.via) : HasOversizedKey(o.via[j])
      [] OTHER -> FALSE

\* A call in which an allocation fails.
SpillFails == sancall.nomem /\ HasOversizedKey(sancall.map)

SanDone == sancall.pc \in {"once", "twice"}

SanitizedOnce == Sanitized(Len(sancall.map.via), sancall.first.out)

\* name b is name a with '_' where a has '.', and nothing else changed.
DotsOnly(a, b) ==
    /\ Len(b) = Len(a)
    /\ \A p \in 1..Len(a) :
          /\ b[p] # "."
          /\ a[p] = "." => b[p] = "_"
          /\ a[p] # "." => b[p] = a[p]

\* b is a with the dots of every field name replaced, at every depth.
RECURSIVE DotsReplaced(_, _)
DotsReplaced(a, b) ==
    CASE a.type = "MAP" ->
            /\ b.type = "MAP"
            /\ Len(b.via) = Len(a.via)
            /\ \A j \in 1..Len(a.via) :
                  /\ a.via[j].key.type \in {"STR", "BIN"} =>
                        /\ b.via[j].key.type = "STR"
                        /\ DotsOnly(a.via[j].key.via, b.via[j].key.via)
                  /\ DotsReplaced(a.via[j].val, b.via[j].val)
      [] a.type = "ARRAY" ->
            /\ b.type = "ARRAY"
            /\ Len(b.via) = Len(a.via)
            /\ \A j \in 1..Len(a.via) : DotsReplaced(a.via[j], b.via[j])
      [] OTHER -> b = a

\* C12: with replace_dots, every string or binary field name at every
\* depth (in nested maps and in maps inside arrays) comes out with its
\* length, without any '.', and changed only where it held '.', which is
\* now '_'; values that are no containers, dots included, come out as
\* they were.  A call in which an allocation fails writes no map at all.
C12_DotsReplaced ==
    (SanDone /\ ctx.replace_dots) =>
        IF SpillFails THEN SanitizedOnce = NoObject
        ELSE /\ sancall.first.ret = 0
             /\ DotsReplaced(sancall.map, SanitizedOnce)

C12_Witness ==
    /\ SanDone
    /\ ctx.replace_dots
    /\ ~SpillFails
    /\ \E j \in 1..Len(sancall.map.via) :
          /\ sancall.map.via[j].key = Str(<<"s">>)
          /\ SanitizedOnce.via[j].val.via[2].via[1].key
                = Str(<<"e", "_", "f">>)
    /\ \E j \in 1..Len(sancall.map.via) :
          /\ sancall.map.via[j].key = Str(<<"a", ".", "b", ".">>)
          /\ SanitizedOnce.via[j] = KV(Str(<<"a", "_", "b", "_">>), Str(S_vw))

\* b has the shape of a: sizes, order, and the values that are no
\* containers; string keys too when sameKeys is set.
RECURSIVE SameShape(_, _, _)
SameShape(a, b, sameKeys) ==
    CASE a.type = "MAP" ->
            /\ b.type = "MAP"
            /\ Len(b.via) = Len(a.via)
            /\ \A j \in 1..Len(a.via) :
                  /\ b.via[j].key.type = "STR"
                  /\ (sameKeys /\ a.via[j].key.type = "STR") =>
                        b.via[j].key = a.via[j].key
                  /\ SameShape(a.via[j].val, b.via[j].val, sameKeys)
      [] a.type = "ARRAY" ->
            /\ b.type = "ARRAY"
            /\ Len(b.via) = Len(a.via)
            /\ \A j \in 1..Len(a.via) :
                  SameShape(a.via[j], b.via[j], sameKeys)
      [] OTHER -> b = a

\* C13: the output has, at every level, as many entries as the input in
\* the same order; nested maps and arrays keep size and order; a value that
\* is no container is copied with its type; and without replace_dots every
\* string key is copied as it is.  A call in which an allocation fails
\* writes no map at all.
C13_ShapePreserved ==
    SanDone =>
        IF SpillFails THEN SanitizedOnce = NoObject
        ELSE /\ sancall.first.ret = 0
             /\ SameShape(sancall.map, SanitizedOnce, ~ctx.replace_dots)

C13_Witness ==
    /\ SanDone
    /\ ~ctx.replace_dots
    /\ ~SpillFails
    /\ Len(sancall.map.via) = 2
    /\ sancall.map.via[1].key = Str(<<"s">>)
    /\ sancall.map.via[2].key = Str(<<"a", ".", "b", ".">>)
    /\ Len(SanitizedOnce.via[1].val.via) = 3
    /\ SanitizedOnce.via[1].val.via[2] = sancall.map.via[1].val.via[2]
    /\ SanitizedOnce.via[2] = sancall.map.via[2]

\* C16: the call on the output of a call writes what the first call
\* wrote and returns what it returned, with and without replace_dots.
C16_Idempotent ==
    sancall.pc = "twice" =>
        /\ sancall.second.ret = sancall.first.ret
        /\ sancall.second.out = sancall.first.out

C16_Witness ==
    /\ sancall.pc = "twice"
    /\ ctx.replace_dots
    /\ Len(sancall.map.via) = 2
    /\ sancall.map.via[1].key = Str(<<"a", ".", "b", ".">>)
    /\ sancall.map.via[2].key = UInt(5)
    /\ sancall.second.out # PackEach(sancall.map.via, TRUE)

\* C19: a call in which the allocation for an oversized key fails, at
\* any depth, returns failure.
C19_NestedFailureReturned ==
    (SanDone /\ SpillFails) => sancall.first.ret = -1

-----------------------------------------------------------------------------
(* The index name in logstash mode.                                        *)

\* What the prefix-key lookup finds in the record of a line; empty when
\* no key is configured, the record has no such field or the lookup failed.
PrefixFound(line) ==
    IF ctx.logstash_prefix_key.null \/ line.rec \in lookup_failed THEN <<>>
    ELSE RaLookup(ctx.ra_prefix_key, MapOf(line).via)

\* C14: in logstash mode the index name of every record is
\* <prefix>-<date of the record>, where the prefix is the first
\* min(length, 128) bytes of the value the prefix-key lookup finds in that
\* record, and logstash_prefix when it finds none.
C14_LogstashIndex ==
    ctx.logstash_format =>
        \A i \in ActionLines :
            LET v == PrefixFound(Lines[i])
                prefix == IF v = <<>> THEN ctx.logstash_prefix
                          ELSE Take(v, PrefixKeyMax)
            IN Lines[i].hdr.index = prefix \o <<"-">> \o DateOf(Lines[i])

-----------------------------------------------------------------------------
(* cb_es_flush: a failed format call, and the storage of the payload.      *)

FormatSucceeded == pc = "returned" /\ ret = 0

\* C15: when elasticsearch_format has failed, cb_es_flush releases the
\* connection and returns the verdict that makes the caller retry the
\* batch, FLB_RETRY.
C15_FormatFailureRetried ==
    (fpc = "done" /\ pc = "returned" /\ ret # 0) =>
        /\ flush.u_conn = "released"
        /\ verdict = "FLB_RETRY"

\* C18: a successful elasticsearch_format has released the context of the
\* bulk and not its storage, which is what the caller was handed; when
\* cb_es_flush then ends with FLB_OK or FLB_RETRY it has freed the
\* storage exactly once; and it never reads the storage once freed, nor
\* frees it twice.
C18_StorageOwnedByCaller ==
    /\ FormatSucceeded =>
          /\ bulk.ctx = "freed"
          /\ bulk.ptr = "live"
          /\ out_data.ptr_set /\ out_data.ptr = bulk.buf
    /\ (FormatSucceeded /\ fpc = "done") =>
          /\ verdict \in {"FLB_OK", "FLB_RETRY"}
          /\ flush.pack = "freed"
          /\ flush.frees = 1
    /\ flush.frees <= 1
    /\ ~flush.stale_read
    /\ flush.pack = "held" => FormatSucceeded

C18_Witness ==
    /\ FormatSucceeded
    /\ fpc = "done"
    /\ verdict = "FLB_RETRY"
    /\ flush.signature = "none"
    /\ ctx.has_aws_auth
    /\ flush.http = "none"
    /\ Len(out_data.ptr) = 2

-----------------------------------------------------------------------------
(* current_time_index: two calls of elasticsearch_format.                  *)

TimeConfigs ==
    {Config(lf, gid, NULL, FALSE, TRUE, NULL, <<"i", "%", "d">>,
            FALSE, FALSE) :
        lf \in BOOLEAN, gid \in BOOLEAN}

\* The index names of the action lines, in order.
IndexNames ==
    [k \in 1..(Len(Lines) \div 2) |-> Lines[2 * k - 1].hdr.index]

\* elasticsearch_format is called once more, with the same configuration
\* and the clock reading the same, on records that may carry another
\* time; the input, the clock and the index names of the first call are
\* remembered.
FormatRetimed ==
    /\ pc = "returned"
    /\ ret = 0
    /\ history = {}
    /\ history' = {[data |-> data, clock |-> clock, index |-> IndexNames]}
    /\ data' = <<>>
    /\ pc' = "entry"
    /\ off' = 0
    /\ tms' = UninitTime
    /\ logstash_index' = <<>>
    /\ index_formatted' = <<>>
    /\ j_index' = NoHeader
    /\ index_len' = 0
    /\ bulk' = NoBulk
    /\ out_data' = NoOut
    /\ alloc_failed' = FALSE
    /\ lookup_failed' = {}
    /\ objects' = objects \cup {Rec(86400, o.via[2]) : o \in objects}
    /\ UNCHANGED <<ctx, tag, clock, ret, flushvars, sancall, idcall, conf, hdrcall>>

InitTime ==
    /\ ctx \in TimeConfigs
    /\ tag = <<"t", "g">>
    /\ objects = {Rec(0, M_a), Rec(0, M_b)}
    /\ clock \in Clocks
    /\ sancall = NoSan
    /\ idcall = NoIdCall
    /\ conf = NoConf
    /\ hdrcall = NoHdrCall
    /\ data = <<>>
    /\ pc = "entry"
    /\ FormatFresh
    /\ history = {}
    /\ fpc = "none"
    /\ flush = NoFlush
    /\ verdict = "none"
    /\ resp = NoResp
    /\ check = NoCheck

NextTime == FormatBegin \/ FormatRecord \/ FormatEnd \/ FormatRetimed

SpecTime == InitTime /\ [][NextTime]_vars

\* Two inputs that differ in the timestamps of their records at most.
SameButTimes(d1, d2) ==
    /\ Len(d1) = Len(d2)
    /\ \A i \in 1..Len(d1) :
          /\ IsPair(d1[i]) /\ IsPair(d2[i])
          /\ d1[i].via[2] = d2[i].via[2]

\* C20: with current_time_index, two calls with the same configuration
\* and the same clock, on inputs that differ only in the timestamps of
\* their records, write the same index names in the same order, with
\* and without logstash_format.
C20_IndexFromClockOnly ==
    (ctx.current_time_index /\ pc = "returned" /\ ret = 0) =>
        \A h \in history :
            (h.clock = clock /\ SameButTimes(h.data, data)) =>
                IndexNames = h.index

C20_Witness ==
    /\ ctx.current_time_index
    /\ ctx.logstash_format
    /\ pc = "returned"
    /\ ret = 0
    /\ \E h \in history :
          /\ h.clock = clock
          /\ SameButTimes(h.data, data)
          /\ Len(data) = 2
          /\ h.data[1].via[1] # data[1].via[1]
          /\ Len(IndexNames) = 2

C20_WitnessPlain ==
    /\ ctx.current_time_index
    /\ ~ctx.logstash_format
    /\ \E h \in history :
          /\ h.clock = clock
          /\ SameButTimes(h.data, data)
          /\ h.data # data
          /\ Len(IndexNames) = 2
          /\ pc = "returned" /\ ret = 0

-----------------------------------------------------------------------------
(* The id template expanded on the map of a record.                        *)

S_a == <<"a">>

\* Top-level fields to look a name up in.
IdEntries ==
    {KV(Str(S_id), Str(S_a)),
     KV(Str(<<"I", "D">>), Str(<<"b">>)),
     KV(Str(<<"i">>), Str(<<"p">>)),
     KV(Str(<<"i", "d", "x">>), Str(<<"x">>)),
     KV(Str(S_id), UInt(1)),
     KV(Str(<<"g">>), Map(<<KV(Str(S_id), Str(<<"d">>))>>))}

IdMaps == UNION {[1..n -> IdEntries] : n \in 0..MaxFields}

\* What lies behind the last pair of the map in memory: a pair whose key
\* type reads as MSGPACK_OBJECT_NIL, or memory that is not mapped.
IdTails == {<<KV(Nil, Nil)>>, <<>>}

IdNames == {S_id, <<"I", "d">>}

InitId ==
    /\ ctx \in {Config(FALSE, FALSE, Sds(<<"$", "[">> \o name \o <<"]">>),
                       FALSE, FALSE, NULL, <<"i">>, FALSE, FALSE) :
                   name \in IdNames}
    /\ tag = <<"t", "g">>
    /\ objects = {}
    /\ clock = [first |-> UninitTime, second |-> UninitTime]
    /\ sancall = NoSan
    /\ \E kvs \in IdMaps, tail \in IdTails :
          idcall = [pc |-> "in", kvs |-> kvs, tail |-> tail,
                    segv |-> FALSE, text |-> <<>>]
    /\ conf = NoConf
    /\ hdrcall = NoHdrCall
    /\ data = <<>>
    /\ pc = "idle"
    /\ FormatFresh
    /\ history = {}
    /\ fpc = "none"
    /\ flush = NoFlush
    /\ verdict = "none"
    /\ resp = NoResp
    /\ check = NoCheck

\* Lines 309-350 with map holding the map of a record.
ExpandId ==
    /\ idcall.pc = "in"
    /\ \E r \in {IdFormatScan(ctx.id_format.buf,
                              [mapped |-> TRUE,
                               kv |-> idcall.kvs \o idcall.tail])} :
          idcall' = [idcall EXCEPT !.pc = "done", !.segv = r.segv,
                                   !.text = r.text]
    /\ UNCHANGED <<envvars, sancall, conf, hdrcall, data, fmtvars, history, flushvars>>

NextId == ExpandId

SpecId == InitId /\ [][NextId]_vars

\* The name between $[ and ] of the configured template.
IdName == SubSeq(ctx.id_format.buf, 3, Len(ctx.id_format.buf) - 1)

\* C21: the text put in the place of $[name] is the value of the first
\* top-level field whose value is a string and whose name is name, letter
\* case aside; every top-level field counts, the first included; a field
\* whose name is a prefix of name does not; and the text is empty when
\* there is no such field or only a nested one.  Stated for a map that
\* is followed in memory by a pair that ends the loop.
C21_FirstMatchingField ==
    (idcall.pc = "done" /\ idcall.tail # <<>>) =>
        /\ ~idcall.segv
        /\ idcall.text = FieldValue(idcall.kvs, IdName)

-----------------------------------------------------------------------------
(* Keys that are neither strings nor binaries.                             *)

\* b has, wherever a has a key that is neither a string nor a binary, that
\* very key, at every depth.
RECURSIVE OtherKeysKept(_, _)
OtherKeysKept(a, b) ==
    CASE a.type = "MAP" ->
            /\ b.type = "MAP"
            /\ Len(b.via) = Len(a.via)
            /\ \A j \in 1..Len(a.via) :
                  /\ a.via[j].key.type \notin {"STR", "BIN"} =>
                        b.via[j].key = a.via[j].key
                  /\ OtherKeysKept(a.via[j].val, b.via[j].val)
      [] a.type = "ARRAY" ->
            /\ b.type = "ARRAY"
            /\ Len(b.via) = Len(a.via)
            /\ \A j \in 1..Len(a.via) : OtherKeysKept(a.via[j], b.via[j])
      [] OTHER -> TRUE

\* C22: a key of a map that is neither a string nor a binary (an integer,
\* a boolean, nil) is written with its type and value, in every call in
\* which no allocation fails.
C22_OtherKeysKept ==
    (SanDone /\ ~SpillFails) => OtherKeysKept(sancall.map, SanitizedOnce)

-----------------------------------------------------------------------------
(* cb_es_flush: what is still held when it returns.                        *)

\* C23: when cb_es_flush has returned, the connection, the payload, the
\* HTTP client and the request signature, as far as they were acquired,
\* have been released, and the payload no more than once.
C23_AllReleased ==
    fpc = "done" =>
        /\ flush.u_conn \in {"none", "released"}
        /\ flush.pack \in {"none", "freed"}
        /\ flush.frees <= 1
        /\ flush.c \in {"none", "destroyed"}
        /\ flush.signature \in {"none", "destroyed"}

\* ---------------------------------------------------------------------
\* flb_es_conf_create and flb_es_conf_destroy (es_conf.c).
\*
\* The context holds pointers to the objects created for it; the heap is
\* the set of objects acquired and, for each object, the number of times
\* it was handed to its release function.

ConfObjects ==
    {"ctx", "cloud_user", "cloud_passwd", "upstream", "ra", "aws_tls",
     "provider", "aws_sts_tls", "sts_provider", "session_name"}

\* The pointer fields of the context after flb_calloc.
NewCtx ==
    [u |-> "NULL", base_aws_provider |-> "NULL", aws_provider |-> "NULL",
     aws_tls |-> "NULL", aws_sts_tls |-> "NULL", ra_prefix_key |-> "NULL",
     cloud_passwd |-> "NULL", cloud_user |-> "NULL"]

\* The options of the instance that decide which objects are created.
ConfOptions ==
    {o \in [cloud_id : BOOLEAN, cloud_auth : {"none", "user", "user:passwd"},
            prefix_key : {"none", "plain", "dollar"},
            aws_auth : BOOLEAN, role_arn : BOOLEAN] :
        o.role_arn => o.aws_auth}

\* The calls of flb_es_conf_create that can fail, in the order of the code.
ConfFailures ==
    {"none", "calloc", "cloud_host", "config_map", "upstream", "malloc",
     "ra", "aws_tls", "aws_region", "provider", "session_name", "sts_tls",
     "sts_provider"}

\* The failures the options make possible.
ConfCanFail(opt, fail) ==
    CASE fail = "cloud_host" -> opt.cloud_id
      [] fail = "malloc" -> opt.prefix_key = "plain"
      [] fail = "ra" -> opt.prefix_key # "none"
      [] fail \in {"aws_tls", "aws_region", "provider"} -> opt.aws_auth
      [] fail \in {"session_name", "sts_tls", "sts_provider"} -> opt.role_arn
      [] OTHER -> TRUE

\* A release function called on a pointer: nothing on NULL.
ConfRelease(k, o) ==
    IF o = "NULL" THEN k ELSE [k EXCEPT !.released[o] = @ + 1]

\* A created object stored in a field of the context.
ConfSet(k, field, o) ==
    [k EXCEPT !.c[field] = o, !.acquired = @ \cup {o}]

\* flb_es_conf_destroy on a context: calls base_aws_provider and
\* aws_provider independently.
flb_es_conf_destroy(k) ==
    LET k1 == ConfRelease(k, k.c.u)
        k2 == ConfRelease(k1, k.c.base_aws_provider)
        k3 == ConfRelease(k2, k.c.aws_provider)
        k4 == ConfRelease(k3, k.c.aws_tls)
        k5 == ConfRelease(k4, k.c.aws_sts_tls)
        k6 == ConfRelease(k5, k.c.ra_prefix_key)
        k7 == ConfRelease(k6, k.c.cloud_passwd)
        k8 == ConfRelease(k7, k.c.cloud_user)
    IN  ConfRelease(k8, "ctx")

\* One step of flb_es_conf_create: on failure the context is destroyed and
\* NULL returned, otherwise construction goes on.
ConfStep(k, fails, next) ==
    IF fails THEN [flb_es_conf_destroy(k) EXCEPT !.status = "failed"]
    ELSE next

\* set_cloud_credentials: the first two parts of cloud_auth are duplicated.
set_cloud_credentials(k, cloud_auth) ==
    LET k1 == IF cloud_auth # "none"
              THEN ConfSet(k, "cloud_user", "cloud_user") ELSE k
    IN  IF cloud_auth = "user:passwd"
        THEN ConfSet(k1, "cloud_passwd", "cloud_passwd") ELSE k1

\* The steps of flb_es_conf_create after the allocation of the context, in
\* the order of the code.
ConfSteps ==
    <<"cloud_host", "config_map", "upstream", "malloc", "ra", "aws_tls",
      "aws_region", "provider", "session_name", "sts_tls", "sts_provider">>

\* One step of the construction on the context built so far.
ConfDo(k, step, opt, fail) ==
    CASE step = "cloud_host" ->                              \* 149-159
           ConfStep(k, opt.cloud_id /\ fail = step, k)
      [] step = "config_map" ->                              \* 165-176
           ConfStep(k, fail = step,
                    set_cloud_credentials(k, opt.cloud_auth))
      [] step = "upstream" ->                                \* 191-200
           ConfStep(k, fail = step, ConfSet(k, "u", "upstream"))
      [] step = "malloc" ->                                  \* 236-243
           ConfStep(k, opt.prefix_key = "plain" /\ fail = step, k)
      [] step = "ra" ->                                      \* 248-260
           IF opt.prefix_key = "none" THEN k
           ELSE ConfStep(k, fail = step, ConfSet(k, "ra_prefix_key", "ra"))
      [] step = "aws_tls" ->                                 \* 281-293
           IF ~opt.aws_auth THEN k
           ELSE ConfStep(k, fail = step, ConfSet(k, "aws_tls", "aws_tls"))
      [] step = "aws_region" ->                              \* 295-300
           IF ~opt.aws_auth THEN k ELSE ConfStep(k, fail = step, k)
      [] step = "provider" ->                                \* 308-318
           IF ~opt.aws_auth THEN k
           ELSE ConfStep(k, fail = step,
                         ConfSet(k, "aws_provider", "provider"))
      [] step = "session_name" ->                            \* 320-337
           \* line 323: both fields point at the one provider
           IF ~opt.role_arn THEN k
           ELSE LET kb == [k EXCEPT
                              !.c.base_aws_provider = k.c.aws_provider]
                IN ConfStep(kb, fail = step,
                            [kb EXCEPT
                                !.acquired = @ \cup {"session_name"}])
      [] step = "sts_tls" ->                                 \* 340-352
           IF ~opt.role_arn THEN k
           ELSE ConfStep(k, fail = step,
                         ConfSet(k, "aws_sts_tls", "aws_sts_tls"))
      [] step = "sts_provider" ->                            \* 354-372
           \* the result is assigned and the session name freed before
           \* the result is tested
           IF ~opt.role_arn THEN k
           ELSE LET kc == ConfRelease(
                              IF fail = step
                              THEN [k EXCEPT !.c.aws_provider = "NULL"]
                              ELSE ConfSet(k, "aws_provider",
                                           "sts_provider"),
                              "session_name")
                IN ConfStep(kc, fail = step, kc)

\* The steps run in order on the context until one of them returns; each
\* step is evaluated once.
RECURSIVE ConfRun(_, _, _, _)
ConfRun(k, steps, opt, fail) ==
    IF steps = <<>> \/ k.status # "run" THEN k
    ELSE CHOOSE r \in {ConfRun(n, Tail(steps), opt, fail) :
                          n \in {ConfDo(k, Head(steps), opt, fail)}} : TRUE

flb_es_conf_create(opt, fail) ==
    LET k0 == [status |-> "run", c |-> NewCtx, acquired |-> {},
               released |-> [o \in ConfObjects |-> 0]]
    IN  IF fail = "calloc"                                   \* 134-138
        THEN [k0 EXCEPT !.status = "null"]
        ELSE CHOOSE r \in
                 {IF k.status = "run"                        \* 386
                  THEN [k EXCEPT !.status = "created"] ELSE k :
                     k \in {ConfRun([k0 EXCEPT !.acquired = {"ctx"}],
                                    ConfSteps, opt, fail)}} : TRUE

InitConf ==
    /\ ctx \in {Config(FALSE, FALSE, NULL, FALSE, FALSE, NULL, <<"i">>,
                       FALSE, FALSE)}
    /\ tag = <<"t", "g">>
    /\ objects = {}
    /\ clock = [first |-> UninitTime, second |-> UninitTime]
    /\ sancall = NoSan
    /\ idcall = NoIdCall
    /\ \E opt \in ConfOptions, fail \in ConfFailures :
          /\ ConfCanFail(opt, fail)
          /\ conf = [pc |-> "in", opt |-> opt, fail |-> fail]
    /\ hdrcall = NoHdrCall
    /\ data = <<>>
    /\ pc = "idle"
    /\ FormatFresh
    /\ history = {}
    /\ fpc = "none"
    /\ flush = NoFlush
    /\ verdict = "none"
    /\ resp = NoResp
    /\ check = NoCheck

\* cb_es_init: the context is created from the options of the instance.
ConfCreate ==
    /\ conf.pc = "in"
    /\ \E k \in {flb_es_conf_create(conf.opt, conf.fail)} :
          conf' = [pc |-> k.status, opt |-> conf.opt, fail |-> conf.fail,
                   c |-> k.c, acquired |-> k.acquired,
                   released |-> k.released]
    /\ UNCHANGED <<envvars, sancall, idcall, hdrcall, data, fmtvars, history,
                   flushvars>>

\* cb_es_exit: the context of a running instance is destroyed.
ConfExit ==
    /\ conf.pc = "created"
    /\ \E k \in {flb_es_conf_destroy(conf)} :
          conf' = [k EXCEPT !.pc = "exited"]
    /\ UNCHANGED <<envvars, sancall, idcall, hdrcall, data, fmtvars, history,
                   flushvars>>

NextConf == ConfCreate \/ ConfExit

SpecConf == InitConf /\ [][NextConf]_vars

\* The objects the context owns: all but the session name, a local of
\* flb_es_conf_create.
ConfResources == ConfObjects \ {"session_name"}

\* C24: after flb_es_conf_create failed past the allocation of the context,
\* every resource the context had acquired was released exactly once and no
\* other was released; in particular no provider was released twice when the
\* session name or the STS TLS context could not be created.
C24_ReleasedOnce ==
    conf.pc = "failed" =>
        \A o \in ConfResources :
            conf.released[o] = IF o \in conf.acquired THEN 1 ELSE 0

\* ---------------------------------------------------------------------
\* The action line written into j_index and handed to es_bulk_append.

\* The capacity of j_index (line 231) and the size of a bulk chunk.
ES_BULK_HEADER == 165
ES_BULK_CHUNK == 4096

\* A string of n bytes.
Fill(n) == [i \in 1 .. n |-> "x"]

\* snprintf(str, size, fmt, ...) where text is the expansion of fmt: at most
\* size - 1 bytes of it are stored, a NUL follows them, and the length of
\* the whole expansion is returned.
snprintf(size, text) ==
    [stored |-> Take(text, size - 1),
     written |-> Min(Len(text) + 1, size),
     ret |-> Len(text)]

\* The size handed to snprintf: ES_BULK_CHUNK at line 354, ES_BULK_HEADER
\* at lines 299, 305, 360, 519 and 525.
HeaderSize(site, c) ==
    IF site = "pre" /\ ~c.id_format.null /\ c.suppress_type_name
    THEN ES_BULK_CHUNK ELSE ES_BULK_HEADER

\* The lengths of the index name, of the type name and of a literal id
\* template.
IndexLens == {1, 32, 64}
TypeLens == {1, 4, 128}
IdLens == {1, 36, 72}

\* The configurations of the two places that write an id: the header made
\* before the loop (lines 296-364) and the header of a record whose id is
\* the hash of its document (lines 511-529).
HeaderConfigs ==
    {[Config(FALSE, gid, idf, stn, FALSE, NULL, Fill(n), FALSE, FALSE)
         EXCEPT !.type = Fill(m)] :
        gid \in BOOLEAN, stn \in BOOLEAN, n \in IndexLens, m \in TypeLens,
        idf \in {NULL} \cup {Sds(Fill(k)) : k \in IdLens}}

InitHeader ==
    /\ ctx \in HeaderConfigs
    /\ tag = <<"t", "g">>
    /\ objects = {}
    /\ clock = [first |-> UninitTime, second |-> UninitTime]
    /\ sancall = NoSan
    /\ idcall = NoIdCall
    /\ conf = NoConf
    /\ hdrcall = [pc |-> "in",
                  site |-> IF ctx.generate_id = FLB_TRUE THEN "hash"
                           ELSE "pre"]
    /\ data = <<>>
    /\ pc = "idle"
    /\ FormatFresh
    /\ history = {}
    /\ fpc = "none"
    /\ flush = NoFlush
    /\ verdict = "none"
    /\ resp = NoResp
    /\ check = NoCheck

\* Lines 290-364 and 511-529: the index name is formatted and the action
\* line printed into j_index.
ComposeHeader ==
    /\ hdrcall.pc = "in"
    /\ LET es_index == strftime(IndexFormattedSize - 1, ctx.index,
                                gmtime_r(clock.first.tv_sec))
           h == IF hdrcall.site = "hash"
                THEN HeaderWithId(ctx, es_index, Fill(36))
                ELSE IF ctx.id_format.null THEN HeaderNoId(ctx, es_index)
                ELSE HeaderWithId(ctx, es_index,
                                  IdFormatScan(ctx.id_format.buf,
                                               [mapped |-> FALSE]).text)
           size == HeaderSize(hdrcall.site, ctx)
       IN \E r \in {snprintf(size, HeaderText(h))} :
             hdrcall' = [pc |-> "composed", site |-> hdrcall.site,
                         size |-> size, stored |-> r.stored,
                         written |-> r.written, index_len |-> r.ret]
    /\ UNCHANGED <<envvars, sancall, idcall, conf, data, fmtvars, history,
                   flushvars>>

\* Lines 540-541: j_index and index_len are handed to es_bulk_append.
AppendHeader ==
    /\ hdrcall.pc = "composed"
    /\ hdrcall' = [hdrcall EXCEPT !.pc = "appended"]
    /\ UNCHANGED <<envvars, sancall, idcall, conf, data, fmtvars, history,
                   flushvars>>

NextHeader == ComposeHeader \/ AppendHeader

SpecHeader == InitHeader /\ [][NextHeader]_vars

\* C25: the length handed to es_bulk_append is at most the number of bytes
\* stored in j_index, and the bytes written into j_index, the NUL included,
\* fit its capacity ES_BULK_HEADER.
C25_HeaderBounded ==
    hdrcall.pc = "appended" =>
        /\ hdrcall.index_len <= Len(hdrcall.stored)
        /\ hdrcall.written <= ES_BULK_HEADER

\* ---------------------------------------------------------------------
\* Entries of two elements whose second element is no mapping.

NoMapEntries ==
    {Arr(<<UInt(0), Str(<<>>)>>), Arr(<<UInt(0), Arr(<<>>)>>),
     Arr(<<UInt(0), UInt(0)>>)}

EntryConfigs ==
    {Config(lf, gid, NULL, FALSE, FALSE, NULL, <<"i">>, FALSE, itk) :
        lf \in BOOLEAN, gid \in BOOLEAN, itk \in BOOLEAN}

InitEntry ==
    /\ ctx \in EntryConfigs
    /\ tag = <<"t", "g">>
    /\ objects = {Rec(0, M_b)} \cup NoMapEntries
    /\ clock = [first |-> UninitTime, second |-> UninitTime]
    /\ sancall = NoSan
    /\ idcall = NoIdCall
    /\ conf = NoConf
    /\ hdrcall = NoHdrCall
    /\ data = <<>>
    /\ pc = "entry"
    /\ FormatFresh
    /\ history = {}
    /\ fpc = "none"
    /\ flush = NoFlush
    /\ verdict = "none"
    /\ resp = NoResp
    /\ check = NoCheck

NextEntry == FormatBegin \/ FormatRecord \/ FormatEnd

SpecEntry == InitEntry /\ [][NextEntry]_vars

\* C26: every line of the bulk buffer, action line or document line, was
\* made from an entry whose second element is a mapping.
C26_LinesFromMappings ==
    \A i \in 1 .. Len(Lines) : MapOf(Lines[i]).type = "MAP"

====
